---- MODULE Spec2Model ----
(***************************************************************************)
(* A state-machine model of the tie-dye generator: the FoldingEngine (fold *)
(* stack, redo buffer, derived layers), the DyePhysics model (strokes and  *)
(* recorded dye points) and the parts of TShirtCanvas and ColorManager     *)
(* they call.  Every operation is a pure operator from a component state   *)
(* (a record) to the state after the call together with the call's return  *)
(* value and the notifications it emitted; every action applies one such   *)
(* operator to the current state.                                          *)
(*                                                                         *)
(* Numbers: canvas coordinates, brush sizes and intensities are integers;  *)
(* crease-line coordinates, which the code computes by division, are exact *)
(* fractions [n, d].  Opacities and rates are in percent.  The timestamp   *)
(* field of a dye point (Date.now()) is left out: nothing reads it.  So    *)
(* are the canvas' isDirty flag and the render loop that composes the      *)
(* layers on the screen.  A canvas layer is the sequence of the shapes     *)
(* drawn on it since it was last cleared.                                  *)
(*                                                                         *)
(* The PatternGenerator's generatePattern is asynchronous: it runs up to   *)
(* its first await in the call, and every later part runs when the 100 ms  *)
(* timer it waits for fires.  The invocations suspended on a timer are the *)
(* queue timers; timers of equal delay fire in the order they were set.    *)
(* A JavaScript array is a value here; where it matters that two names     *)
(* denote the same array (the snapshot a caller holds), a flag says so.    *)
(***************************************************************************)
EXTENDS Integers, Sequences, FiniteSets, TLC

(***************************************************************************)
(* Bounds of the model.                                                    *)
(***************************************************************************)
MaxFolds == 2
MaxUndo == 2
MaxPoints == 2
MaxUnfolds == 2
RedoLimit == 4
SymMaxFolds == 1
SymMaxPoints == 1

(***************************************************************************)
(* config/constants.js                                                     *)
(***************************************************************************)
MAX_LAYERS == 8
LAYER_OPACITY_STEP == 10
CENTER_X == 400
CENTER_Y == 300
WIDTH == 300
HEIGHT == 400
BRUSH_MIN_SIZE == 5
BRUSH_MAX_SIZE == 50
BRUSH_DEFAULT_SIZE == 20
MIN_INTENSITY == 0
MAX_INTENSITY == 100
DEFAULT_INTENSITY == 50
BLEED_RATE == 150
ABSORPTION_RATE == 80

ACCORDION == "accordion"
SPIRAL == "spiral"
CRUMPLE == "crumple"
DIAGONAL == "diagonal"
FOLD_TYPES == {ACCORDION, SPIRAL, CRUMPLE, DIAGONAL}

FOLD_APPLIED == "fold:applied"
FOLD_UNDONE == "fold:undone"
FOLD_CLEARED == "fold:cleared"
DYE_APPLIED == "dye:applied"
DYE_CLEARED == "dye:cleared"
UNFOLD_START == "unfold:start"
UNFOLD_COMPLETE == "unfold:complete"

PHASE_FOLD == "fold"
PHASE_DYE == "dye"
PHASE_UNFOLD == "unfold"
PHASE_CHANGED == "phase:changed"

VARIABLES
    folds,              \* FoldingEngine.folds
    undoStack,          \* FoldingEngine.undoStack (the redo buffer)
    layers,             \* FoldingEngine.layers
    foldLayer,          \* what is drawn on the canvas layer 'folds'
    currentColor,       \* ColorManager.currentColor
    dyePoints,          \* DyePhysics.dyePoints
    isApplying,         \* DyePhysics.isApplying
    currentBrushSize,   \* DyePhysics.currentBrushSize
    currentIntensity,   \* DyePhysics.currentIntensity
    dyeLayer,           \* what is drawn on the canvas layer 'dye'
    finalLayer,         \* what is drawn on the canvas layer 'final'
    timers,             \* the generatePattern invocations waiting for a timer
    currentPhase,       \* UIController.currentPhase
    held,               \* the array a caller got from getDyePoints()
    asked,              \* the arguments of the last mixColors or mixDyesAtPoint
    pressed,            \* a mousedown on the garment came in the dye phase
                        \* and no mouseup, mouseleave or change of phase
                        \* has come since
    lastOp,             \* the name of the last call
    ret,                \* the return value of the last call
    emitted             \* the notifications the last call emitted, in order

foldVars == <<folds, undoStack, layers, foldLayer>>
dyeVars == <<currentColor, dyePoints, isApplying, currentBrushSize, currentIntensity, dyeLayer>>
unfoldVars == <<finalLayer, timers, currentPhase>>
envVars == <<asked, pressed>>
vars == <<folds, undoStack, layers, foldLayer, currentColor, dyePoints, isApplying,
          currentBrushSize, currentIntensity, dyeLayer, finalLayer, timers,
          currentPhase, held, asked, pressed, lastOp, ret, emitted>>

(***************************************************************************)
(* Arithmetic helpers.                                                     *)
(***************************************************************************)
Min(a, b) == IF a <= b THEN a ELSE b

Max(a, b) == IF a >= b THEN a ELSE b

Abs(a) == IF a < 0 THEN 0 - a ELSE a

RECURSIVE GCD(_, _)
GCD(a, b) == IF b = 0 THEN a ELSE GCD(b, a % b)

\* The exact value n/d (d > 0), in lowest terms.
Frac(n, d) ==
    LET g == GCD(Abs(n), d)
    IN  [n |-> n \div g, d |-> d \div g]

FracAdd(a, b) == Frac(a.n * b.d + b.n * a.d, a.d * b.d)

FracSub(a, b) == Frac(a.n * b.d - b.n * a.d, a.d * b.d)

FracMul(a, b) == Frac(a.n * b.n, a.d * b.d)

FracLeq(a, b) == a.n * b.d <= b.n * a.d

(***************************************************************************)
(* FoldingEngine                                                           *)
(***************************************************************************)
\* params.f || dflt for a numeric parameter: an absent field and 0 are falsy.
OrDefault(params, f, dflt) ==
    IF f \in DOMAIN params /\ params[f] # 0 THEN params[f] ELSE dflt

calculateAccordionLines(direction, numFolds) ==
    IF direction = "horizontal"
    THEN LET startY == CENTER_Y - HEIGHT \div 2 + 80
         IN  [i \in 1..numFolds |->
                [x1 |-> Frac(CENTER_X - WIDTH \div 2, 1),
                 y1 |-> Frac(startY * (numFolds + 1) + HEIGHT * i, numFolds + 1),
                 x2 |-> Frac(CENTER_X + WIDTH \div 2, 1),
                 y2 |-> Frac(startY * (numFolds + 1) + HEIGHT * i, numFolds + 1)]]
    ELSE LET startX == CENTER_X - WIDTH \div 2
             startY == CENTER_Y - HEIGHT \div 2 + 80
         IN  [i \in 1..numFolds |->
                [x1 |-> Frac(startX * (numFolds + 1) + WIDTH * i, numFolds + 1),
                 y1 |-> Frac(startY, 1),
                 x2 |-> Frac(startX * (numFolds + 1) + WIDTH * i, numFolds + 1),
                 y2 |-> Frac(startY + HEIGHT - 80, 1)]]

createAccordionFold(params) ==
    LET direction == IF "direction" \in DOMAIN params THEN params.direction
                     ELSE "horizontal"
        numFolds == OrDefault(params, "numFolds", 3)
    IN  [type |-> ACCORDION,
         direction |-> direction,
         numFolds |-> numFolds,
         lines |-> calculateAccordionLines(direction, numFolds),
         layerMultiplier |-> numFolds]

createSpiralFold(params) ==
    LET rotations == OrDefault(params, "rotations", 2)
    IN  [type |-> SPIRAL,
         centerX |-> OrDefault(params, "centerX", CENTER_X),
         centerY |-> OrDefault(params, "centerY", CENTER_Y),
         rotations |-> rotations,
         layerMultiplier |-> rotations * 2]

\* rnd is the outcome of generateRandomCrumplePoints(5): five points of the
\* body rectangle.  An array, even an empty one, is truthy.
createCrumpleFold(params, rnd) ==
    LET points == IF "points" \in DOMAIN params THEN params.points ELSE rnd
    IN  [type |-> CRUMPLE,
         points |-> points,
         layerMultiplier |-> Len(points)]

createDiagonalFold(params) ==
    [type |-> DIAGONAL,
     angle |-> OrDefault(params, "angle", 45),
     layerMultiplier |-> 2]

\* createFold returns null for a fold type outside the four families.
NoFold == [type |-> "null"]

createFold(foldType, params, rnd) ==
    CASE foldType = ACCORDION -> createAccordionFold(params)
      [] foldType = SPIRAL -> createSpiralFold(params)
      [] foldType = CRUMPLE -> createCrumpleFold(params, rnd)
      [] foldType = DIAGONAL -> createDiagonalFold(params)
      [] OTHER -> NoFold

RECURSIVE Multiplier(_)
Multiplier(fs) ==
    IF fs = <<>> THEN 1
    ELSE Multiplier(SubSeq(fs, 1, Len(fs) - 1)) * fs[Len(fs)].layerMultiplier

\* Mutant of updateLayers: the layer count is not clamped to MAX_LAYERS.
updateLayers_unclamped(fs) ==
    LET n == Multiplier(fs)
    IN  IF n < 0 THEN [threw |-> TRUE, layers |-> <<>>]
        ELSE [threw |-> FALSE,
              layers |-> [i \in 1..n |->
                            [index |-> i - 1,
                             opacity |-> 100 - (i - 1) * LAYER_OPACITY_STEP]]]

\* updateLayers: Array(n) throws a RangeError for a negative n, after
\* this.layers has been set to [].
updateLayers(fs) ==
    LET n == Min(Multiplier(fs), MAX_LAYERS)
    IN  IF n < 0 THEN [threw |-> TRUE, layers |-> <<>>]
        ELSE [threw |-> FALSE,
              layers |-> [i \in 1..n |->
                            [index |-> i - 1,
                             opacity |-> 100 - (i - 1) * LAYER_OPACITY_STEP]]]

drawFoldVisualization(fold) ==
    CASE fold.type = ACCORDION -> [shape |-> "lines", lines |-> fold.lines]
      [] fold.type = SPIRAL ->
            [shape |-> "circle", x |-> fold.centerX, y |-> fold.centerY, r |-> 50]
      [] fold.type = CRUMPLE -> [shape |-> "dots", points |-> fold.points]
      [] fold.type = DIAGONAL ->
            [shape |-> "line", x1 |-> CENTER_X - WIDTH \div 2, y1 |-> CENTER_Y,
             x2 |-> CENTER_X + WIDTH \div 2, y2 |-> CENTER_Y]

\* visualizeFolds clears the layer and draws every fold of the stack.
visualizeFolds(fs) == [i \in 1..Len(fs) |-> drawFoldVisualization(fs[i])]

\* The state of the engine, as the operators below take and return it.
Engine == [folds |-> folds, undoStack |-> undoStack, layers |-> layers,
           foldLayer |-> foldLayer]

Outcome(fe, r, evs) ==
    [folds |-> fe.folds, undoStack |-> fe.undoStack, layers |-> fe.layers,
     foldLayer |-> fe.foldLayer, ret |-> r, events |-> evs]

\* Mutant of applyFold: the layer cap is not tested.
applyFold_noCapCheck(fe, foldType, params, rnd) ==
    LET fold == createFold(foldType, params, rnd)
    IN  IF fold = NoFold THEN Outcome(fe, "false", <<>>)
        ELSE LET fs == Append(fe.folds, fold)
                 ul == updateLayers(fs)
             IN  IF ul.threw
                 THEN Outcome([fe EXCEPT !.folds = fs, !.layers = <<>>],
                              "threw", <<>>)
                 ELSE Outcome([fe EXCEPT !.folds = fs,
                                         !.layers = ul.layers,
                                         !.foldLayer = visualizeFolds(fs)],
                              "true",
                              <<[type |-> FOLD_APPLIED, fold |-> fold,
                                 layers |-> ul.layers]>>)

\* Mutant of applyFold: a successful call empties the redo buffer.
applyFold_clearsRedo(fe, foldType, params, rnd) ==
    IF Len(fe.layers) >= MAX_LAYERS THEN Outcome(fe, "false", <<>>)
    ELSE LET fold == createFold(foldType, params, rnd)
         IN  IF fold = NoFold THEN Outcome(fe, "false", <<>>)
             ELSE LET fs == Append(fe.folds, fold)
                      ul == updateLayers(fs)
                  IN  IF ul.threw
                      THEN Outcome([fe EXCEPT !.folds = fs, !.layers = <<>>],
                                   "threw", <<>>)
                      ELSE Outcome([fe EXCEPT !.folds = fs,
                                              !.undoStack = <<>>,
                                              !.layers = ul.layers,
                                              !.foldLayer = visualizeFolds(fs)],
                                   "true",
                                   <<[type |-> FOLD_APPLIED, fold |-> fold,
                                      layers |-> ul.layers]>>)

applyFold(fe, foldType, params, rnd) ==
    IF Len(fe.layers) >= MAX_LAYERS THEN Outcome(fe, "false", <<>>)
    ELSE LET fold == createFold(foldType, params, rnd)
         IN  IF fold = NoFold THEN Outcome(fe, "false", <<>>)
             ELSE LET fs == Append(fe.folds, fold)
                      ul == updateLayers(fs)
                  IN  IF ul.threw
                      THEN Outcome([fe EXCEPT !.folds = fs, !.layers = <<>>],
                                   "threw", <<>>)
                      ELSE Outcome([fe EXCEPT !.folds = fs,
                                              !.layers = ul.layers,
                                              !.foldLayer = visualizeFolds(fs)],
                                   "true",
                                   <<[type |-> FOLD_APPLIED, fold |-> fold,
                                      layers |-> ul.layers]>>)

\* Mutant of undo: the popped fold is not pushed onto the redo buffer.
undo_dropsFold(fe) ==
    IF Len(fe.folds) = 0 THEN Outcome(fe, "false", <<>>)
    ELSE LET fold == fe.folds[Len(fe.folds)]
             fs == SubSeq(fe.folds, 1, Len(fe.folds) - 1)
             ul == updateLayers(fs)
         IN  Outcome([fe EXCEPT !.folds = fs, !.layers = ul.layers,
                                !.foldLayer = visualizeFolds(fs)],
                     "true", <<[type |-> FOLD_UNDONE, fold |-> fold]>>)

undo(fe) ==
    IF Len(fe.folds) = 0 THEN Outcome(fe, "false", <<>>)
    ELSE LET fold == fe.folds[Len(fe.folds)]
             fs == SubSeq(fe.folds, 1, Len(fe.folds) - 1)
             ul == updateLayers(fs)
             pushed == [fe EXCEPT !.folds = fs,
                                  !.undoStack = Append(fe.undoStack, fold)]
         IN  IF ul.threw
             THEN Outcome([pushed EXCEPT !.layers = <<>>], "threw", <<>>)
             ELSE Outcome([pushed EXCEPT !.layers = ul.layers,
                                         !.foldLayer = visualizeFolds(fs)],
                          "true", <<[type |-> FOLD_UNDONE, fold |-> fold]>>)

\* Mutant of redo: the layers are not recomputed.
redo_keepsLayers(fe) ==
    IF Len(fe.undoStack) = 0 THEN Outcome(fe, "false", <<>>)
    ELSE LET fold == fe.undoStack[Len(fe.undoStack)]
             fs == Append(fe.folds, fold)
         IN  Outcome([fe EXCEPT !.folds = fs,
                                !.undoStack = SubSeq(fe.undoStack, 1,
                                                     Len(fe.undoStack) - 1),
                                !.foldLayer = visualizeFolds(fs)],
                     "true", <<[type |-> FOLD_APPLIED, fold |-> fold]>>)

redo(fe) ==
    IF Len(fe.undoStack) = 0 THEN Outcome(fe, "false", <<>>)
    ELSE LET fold == fe.undoStack[Len(fe.undoStack)]
             fs == Append(fe.folds, fold)
             ul == updateLayers(fs)
             popped == [fe EXCEPT !.folds = fs,
                                  !.undoStack = SubSeq(fe.undoStack, 1,
                                                       Len(fe.undoStack) - 1)]
         IN  IF ul.threw
             THEN Outcome([popped EXCEPT !.layers = <<>>], "threw", <<>>)
             ELSE Outcome([popped EXCEPT !.layers = ul.layers,
                                         !.foldLayer = visualizeFolds(fs)],
                          "true", <<[type |-> FOLD_APPLIED, fold |-> fold]>>)

\* Mutant of clear: the redo buffer is kept.
clear_keepsRedo(fe) ==
    Outcome([folds |-> <<>>, undoStack |-> fe.undoStack, layers |-> <<>>,
             foldLayer |-> visualizeFolds(<<>>)],
            "undefined", <<[type |-> FOLD_CLEARED]>>)

clear(fe) ==
    Outcome([folds |-> <<>>, undoStack |-> <<>>, layers |-> <<>>,
             foldLayer |-> visualizeFolds(<<>>)],
            "undefined", <<[type |-> FOLD_CLEARED]>>)

getFolds(fe) == fe.folds

getLayers(fe) == fe.layers

\* The engine takes the state the call left, the call's result is recorded.
EngineCall(name, o) ==
    /\ lastOp' = name
    /\ folds' = o.folds
    /\ undoStack' = o.undoStack
    /\ layers' = o.layers
    /\ foldLayer' = o.foldLayer
    /\ ret' = o.ret
    /\ emitted' = o.events

ApplyFold(foldType, params, rnd) ==
    /\ EngineCall("applyFold", applyFold(Engine, foldType, params, rnd))
    /\ Len(folds') <= MaxFolds
    /\ UNCHANGED <<dyeVars, unfoldVars, envVars, held>>

Undo ==
    /\ EngineCall("undo", undo(Engine))
    /\ Len(undoStack') <= MaxUndo
    /\ UNCHANGED <<dyeVars, unfoldVars, envVars, held>>

Redo ==
    /\ EngineCall("redo", redo(Engine))
    /\ Len(folds') <= MaxFolds
    /\ UNCHANGED <<dyeVars, unfoldVars, envVars, held>>

ClearFolds ==
    /\ EngineCall("clear", clear(Engine))
    /\ UNCHANGED <<dyeVars, unfoldVars, envVars, held>>

(***************************************************************************)
(* TShirtCanvas                                                            *)
(***************************************************************************)
createShirtGeometry ==
    [body |-> [x |-> CENTER_X - WIDTH \div 2,
               y |-> CENTER_Y - HEIGHT \div 2 + 80,
               width |-> WIDTH,
               height |-> HEIGHT - 80],
     sleeves |-> <<[x |-> CENTER_X - WIDTH \div 2,
                    y |-> CENTER_Y - HEIGHT \div 2 + 100,
                    width |-> 0 - 80,
                    height |-> 120],
                   [x |-> CENTER_X + WIDTH \div 2,
                    y |-> CENTER_Y - HEIGHT \div 2 + 100,
                    width |-> 80,
                    height |-> 120]>>]

isPointOnShirt(x, y) ==
    LET body == createShirtGeometry.body
        sleeves == createShirtGeometry.sleeves
        onSleeve(sleeve) ==
            LET sleeveRight == sleeve.x + sleeve.width
                sleeveBottom == sleeve.y + sleeve.height
            IN  /\ \/ sleeve.width > 0 /\ x >= sleeve.x /\ x <= sleeveRight
                   \/ sleeve.width < 0 /\ x <= sleeve.x /\ x >= sleeveRight
                /\ y >= sleeve.y
                /\ y <= sleeveBottom
    IN  \/ /\ x >= body.x
           /\ x <= body.x + body.width
           /\ y >= body.y
           /\ y <= body.y + body.height
        \/ \E i \in 1..Len(sleeves) : onSleeve(sleeves[i])

(***************************************************************************)
(* ColorManager                                                            *)
(***************************************************************************)
\* utils.js hexToRgb: the colour of a #rrggbb string, null for any other.
NoColor == [r |-> 0 - 1, g |-> 0 - 1, b |-> 0 - 1]

hexToRgb(hex) ==
    CASE hex = "#ff0000" -> [r |-> 255, g |-> 0, b |-> 0]
      [] hex = "#0000ff" -> [r |-> 0, g |-> 0, b |-> 255]
      [] hex = "#ffff00" -> [r |-> 255, g |-> 255, b |-> 0]
      [] OTHER -> NoColor

setColor(color, hex) ==
    LET rgb == hexToRgb(hex)
    IN  IF rgb # NoColor THEN rgb ELSE color

getCurrentColor(color) == [r |-> color.r, g |-> color.g, b |-> color.b]

\* Mutant of rgbToCmy: the channels are scaled and not complemented.
rgbToCmy_noComplement(rgb) ==
    [c |-> Frac(rgb.r, 255), m |-> Frac(rgb.g, 255), y |-> Frac(rgb.b, 255)]

\* c: 1 - (rgb.r / 255), and so for m and y.
rgbToCmy(rgb) ==
    [c |-> Frac(255 - rgb.r, 255),
     m |-> Frac(255 - rgb.g, 255),
     y |-> Frac(255 - rgb.b, 255)]

\* The calls mixColors(color1, color2, ratio), given channel by channel as
\* <<channel of color1, channel of color2, ratio>>, whose channel is exactly
\* halfway between two integers in real arithmetic and reaches Math.round
\* as a double below the half: the divisions, products and sums before
\* Math.round are each rounded to a double (57.49999999999999 for
\* <<8, 58, 0.99>> and <<58, 8, 0.01>>, 8.499999999999998 for
\* <<58, 8, 0.99>>).  The other calls of the model reach Math.round at the
\* half or above it (8.500000000000027 for <<8, 58, 0.01>>).
BelowHalf ==
    {<<8, 58, Frac(99, 100)>>, <<58, 8, Frac(1, 100)>>, <<58, 8, Frac(99, 100)>>}

\* Math.round(v): the nearest integer, the half rounded up; below says that
\* the double computed for a halfway v lies below v.
MathRound(v, below) ==
    IF v.d = 2 /\ below
    THEN (v.n - 1) \div 2
    ELSE (2 * v.n + v.d) \div (2 * v.d)

\* r: Math.round((1 - cmy.c) * 255), and so for g and b.
cmyToRgb(cmy, below) ==
    LET channel(v, f) ==
            MathRound(FracMul(FracSub(Frac(1, 1), v), Frac(255, 1)), below[f])
    IN  [r |-> channel(cmy.c, "r"), g |-> channel(cmy.m, "g"),
         b |-> channel(cmy.y, "b")]

\* mixColors for two colours of integer channels and the ratio a fraction.
mixColors(color1, color2, ratio) ==
    LET cmy1 == rgbToCmy(color1)
        cmy2 == rgbToCmy(color2)
        mix(v1, v2) ==
            FracAdd(FracMul(v1, FracSub(Frac(1, 1), ratio)), FracMul(v2, ratio))
        mixed == [c |-> mix(cmy1.c, cmy2.c), m |-> mix(cmy1.m, cmy2.m),
                  y |-> mix(cmy1.y, cmy2.y)]
        below == [r |-> <<color1.r, color2.r, ratio>> \in BelowHalf,
                  g |-> <<color1.g, color2.g, ratio>> \in BelowHalf,
                  b |-> <<color1.b, color2.b, ratio>> \in BelowHalf]
    IN  cmyToRgb(mixed, below)

White == [r |-> 255, g |-> 255, b |-> 255]

\* The loop of blendLayers from the layer k on: the ratio of mixColors is
\* layer.intensity as it stands.
RECURSIVE blendFrom(_, _, _)
blendFrom(result, blend, k) ==
    IF k > Len(blend) THEN result
    ELSE blendFrom(mixColors(result, blend[k].color, blend[k].intensity),
                   blend, k + 1)

blendLayers(blend) ==
    IF Len(blend) = 0 THEN White
    ELSE IF Len(blend) = 1 THEN blend[1].color
    ELSE blendFrom(blend[1].color, blend, 2)

\* A call of mixColors from outside: the colour it returns is recorded.
MixColors(color1, color2, ratio) ==
    /\ lastOp' = "mixColors"
    /\ asked' = <<color1, color2, ratio>>
    /\ ret' = mixColors(color1, color2, ratio)
    /\ emitted' = <<>>
    /\ UNCHANGED <<foldVars, dyeVars, unfoldVars, held, pressed>>

(***************************************************************************)
(* DyePhysics                                                              *)
(***************************************************************************)
\* The state of the dye model, as the operators below take and return it.
Dye == [dyePoints |-> dyePoints, isApplying |-> isApplying,
        currentBrushSize |-> currentBrushSize,
        currentIntensity |-> currentIntensity, dyeLayer |-> dyeLayer]

DyeOutcome(d, evs) ==
    [dyePoints |-> d.dyePoints, isApplying |-> d.isApplying,
     currentBrushSize |-> d.currentBrushSize,
     currentIntensity |-> d.currentIntensity, dyeLayer |-> d.dyeLayer,
     ret |-> "undefined", events |-> evs]

setBrushSize(d, size) ==
    DyeOutcome([d EXCEPT !.currentBrushSize =
                    Max(BRUSH_MIN_SIZE, Min(size, BRUSH_MAX_SIZE))], <<>>)

\* Mutant of setIntensity: the lower bound is not applied.
setIntensity_noLowerClamp(d, intensity) ==
    DyeOutcome([d EXCEPT !.currentIntensity = Min(intensity, MAX_INTENSITY)],
               <<>>)

setIntensity(d, intensity) ==
    DyeOutcome([d EXCEPT !.currentIntensity =
                    Max(MIN_INTENSITY, Min(intensity, MAX_INTENSITY))], <<>>)

\* renderDyePoint: one radial footprint; its alpha is
\* (intensity / sqrt(layerCount)) / 100 * 0.8.
renderDyePoint(dyePoint) ==
    [kind |-> "dye", x |-> dyePoint.x, y |-> dyePoint.y, color |-> dyePoint.color,
     intensity |-> dyePoint.intensity, radius |-> dyePoint.radius,
     layerCount |-> dyePoint.layerCount]

\* simulateBleed: nothing when intensity * ABSORPTION_RATE < 5; otherwise
\* eight satellites of half the current brush size, each at a random distance
\* in [0.5, 1] * bleedRadius (kept as the ring they are drawn from).
simulateBleed(dyePoint, brush) ==
    IF dyePoint.intensity * ABSORPTION_RATE < 5 * 100 THEN <<>>
    ELSE <<[kind |-> "bleed", x |-> dyePoint.x, y |-> dyePoint.y,
            color |-> dyePoint.color, count |-> 8,
            bleedRadius |-> Frac(dyePoint.radius * BLEED_RATE, 100),
            bleedIntensity |-> Frac(dyePoint.intensity * ABSORPTION_RATE, 100),
            radius |-> Frac(brush, 2)]>>

\* Mutant of effectiveLayerCount: the count is not raised to 1.
effectiveLayerCount_noFloor(fe) == Len(getLayers(fe))

\* const layers = this.foldingEngine.getLayers();
\* const layerCount = Math.max(1, layers.length);
effectiveLayerCount(fe) == Max(1, Len(getLayers(fe)))

applyDye(d, x, y, color, fe) ==
    LET layerCount == effectiveLayerCount(fe)
        dyePoint == [x |-> x, y |-> y, color |-> getCurrentColor(color),
                     intensity |-> d.currentIntensity,
                     radius |-> d.currentBrushSize,
                     layerCount |-> layerCount]
    IN  DyeOutcome([d EXCEPT !.dyePoints = Append(d.dyePoints, dyePoint),
                             !.dyeLayer = d.dyeLayer
                                            \o <<renderDyePoint(dyePoint)>>
                                            \o simulateBleed(dyePoint,
                                                             d.currentBrushSize)],
                   <<[type |-> DYE_APPLIED, dyePoint |-> dyePoint]>>)

\* Mutant of startApplying: the flag is set before the garment test.
startApplying_flagFirst(d, x, y, color, fe) ==
    IF ~isPointOnShirt(x, y) THEN DyeOutcome([d EXCEPT !.isApplying = TRUE], <<>>)
    ELSE applyDye([d EXCEPT !.isApplying = TRUE], x, y, color, fe)

startApplying(d, x, y, color, fe) ==
    IF ~isPointOnShirt(x, y) THEN DyeOutcome(d, <<>>)
    ELSE applyDye([d EXCEPT !.isApplying = TRUE], x, y, color, fe)

\* Mutant of continueApplying: a point off the garment ends the stroke.
continueApplying_endsOutside(d, x, y, color, fe) ==
    IF ~d.isApplying THEN DyeOutcome(d, <<>>)
    ELSE IF ~isPointOnShirt(x, y)
         THEN DyeOutcome([d EXCEPT !.isApplying = FALSE], <<>>)
         ELSE applyDye(d, x, y, color, fe)

continueApplying(d, x, y, color, fe) ==
    IF ~d.isApplying \/ ~isPointOnShirt(x, y) THEN DyeOutcome(d, <<>>)
    ELSE applyDye(d, x, y, color, fe)

stopApplying(d) == DyeOutcome([d EXCEPT !.isApplying = FALSE], <<>>)

clearDye(d) ==
    DyeOutcome([d EXCEPT !.dyePoints = <<>>, !.dyeLayer = <<>>],
               <<[type |-> DYE_CLEARED]>>)

getDyePoints(d) == d.dyePoints

\* utils.js distance: the Euclidean distance of (x1, y1) and (x2, y2).
\* distanceSq is its square; distance is the distance itself where that is
\* an integer, as it is for the positions of the model that lie on one
\* vertical line.
distanceSq(x1, y1, x2, y2) == (x2 - x1) * (x2 - x1) + (y2 - y1) * (y2 - y1)

distance(x1, y1, x2, y2) ==
    LET sq == distanceSq(x1, y1, x2, y2)
    IN  CHOOSE r \in 0..sq : r * r = sq

\* dyePoint.intensity * Math.max(0, 1 - dist / dyePoint.radius)
calculateIntensityAtPoint(x, y, dyePoint) ==
    LET dist == distance(x, y, dyePoint.x, dyePoint.y)
        falloff == FracSub(Frac(1, 1), Frac(dist, dyePoint.radius))
    IN  FracMul(Frac(dyePoint.intensity, 1),
                IF FracLeq(Frac(0, 1), falloff) THEN falloff ELSE Frac(0, 1))

\* dist <= point.radius, both at least 0, by their squares.
covers(point, x, y) ==
    distanceSq(x, y, point.x, point.y) <= point.radius * point.radius

\* Mutant of mixDyesAtPoint: the dye colour of the garment where no point
\* covers the position is that of the last point.
mixDyesAtPoint_lastColor(d, x, y) ==
    LET covering(point) == covers(point, x, y)
        relevantPoints == SelectSeq(d.dyePoints, covering)
    IN  IF Len(relevantPoints) = 0
        THEN IF d.dyePoints = <<>> THEN White
             ELSE d.dyePoints[Len(d.dyePoints)].color
        ELSE blendLayers([k \in 1..Len(relevantPoints) |->
                            [color |-> relevantPoints[k].color,
                             intensity |-> calculateIntensityAtPoint(
                                               x, y, relevantPoints[k])]])

mixDyesAtPoint(d, x, y) ==
    LET covering(point) == covers(point, x, y)
        relevantPoints == SelectSeq(d.dyePoints, covering)
    IN  IF Len(relevantPoints) = 0
        THEN White
        ELSE blendLayers([k \in 1..Len(relevantPoints) |->
                            [color |-> relevantPoints[k].color,
                             intensity |-> calculateIntensityAtPoint(
                                               x, y, relevantPoints[k])]])

\* The dye model takes the state the call left, the call's result is recorded.
\* applyDye pushes onto the array this.dyePoints, so a caller that held that
\* very array would see the point; clear() assigns a new array.
DyeCall(name, o) ==
    /\ lastOp' = name
    /\ held' = IF held.live /\ name # "clearDye"
               THEN [live |-> TRUE, points |-> o.dyePoints]
               ELSE [live |-> FALSE, points |-> held.points]
    /\ dyePoints' = o.dyePoints
    /\ isApplying' = o.isApplying
    /\ currentBrushSize' = o.currentBrushSize
    /\ currentIntensity' = o.currentIntensity
    /\ dyeLayer' = o.dyeLayer
    /\ ret' = o.ret
    /\ emitted' = o.events

SetBrushSize(size) ==
    /\ DyeCall("setBrushSize", setBrushSize(Dye, size))
    /\ UNCHANGED <<foldVars, currentColor, unfoldVars, envVars>>

SetIntensity(intensity) ==
    /\ DyeCall("setIntensity", setIntensity(Dye, intensity))
    /\ UNCHANGED <<foldVars, currentColor, unfoldVars, envVars>>

SetColor(hex) ==
    /\ currentColor' = setColor(currentColor, hex)
    /\ lastOp' = "setColor"
    /\ ret' = "undefined"
    /\ emitted' = <<>>
    /\ UNCHANGED <<foldVars, dyePoints, isApplying, currentBrushSize,
                   currentIntensity, dyeLayer, unfoldVars, envVars, held>>

StartApplying(x, y) ==
    /\ DyeCall("startApplying", startApplying(Dye, x, y, currentColor, Engine))
    /\ Len(dyePoints') <= MaxPoints
    /\ UNCHANGED <<foldVars, currentColor, unfoldVars, envVars>>

ContinueApplying(x, y) ==
    /\ DyeCall("continueApplying", continueApplying(Dye, x, y, currentColor, Engine))
    /\ Len(dyePoints') <= MaxPoints
    /\ UNCHANGED <<foldVars, currentColor, unfoldVars, envVars>>

StopApplying ==
    /\ DyeCall("stopApplying", stopApplying(Dye))
    /\ UNCHANGED <<foldVars, currentColor, unfoldVars, envVars>>

ClearDye ==
    /\ DyeCall("clearDye", clearDye(Dye))
    /\ UNCHANGED <<foldVars, currentColor, unfoldVars, envVars>>

\* A call of mixDyesAtPoint(x, y): the colour it returns is recorded.
MixDyesAtPoint(x, y) ==
    /\ lastOp' = "mixDyesAtPoint"
    /\ asked' = <<x, y>>
    /\ ret' = mixDyesAtPoint(Dye, x, y)
    /\ emitted' = <<>>
    /\ UNCHANGED <<foldVars, dyeVars, unfoldVars, held, pressed>>

\* Mutant of GetDyePoints: the caller gets the array this.dyePoints itself.
GetDyePoints_liveReference ==
    /\ held' = [live |-> TRUE, points |-> getDyePoints(Dye)]
    /\ lastOp' = "getDyePoints"
    /\ ret' = "array"
    /\ emitted' = <<>>
    /\ UNCHANGED <<foldVars, dyeVars, unfoldVars, envVars>>

\* getDyePoints() returns [...this.dyePoints]: a new array of the same points.
GetDyePoints ==
    /\ held' = [live |-> FALSE, points |-> getDyePoints(Dye)]
    /\ lastOp' = "getDyePoints"
    /\ ret' = "array"
    /\ emitted' = <<>>
    /\ UNCHANGED <<foldVars, dyeVars, unfoldVars, envVars>>

(***************************************************************************)
(* PatternGenerator                                                        *)
(*                                                                         *)
(* A position of the final layer is [x, y, via]: exact coordinates and the *)
(* maps still to be applied to them, which are those the code computes     *)
(* with an irrational sine or cosine.  Rotations by quarter turns and      *)
(* reflections at multiples of 45 degrees are exact here (the code's       *)
(* floating-point results differ from them by rounding).                   *)
(***************************************************************************)
RECURSIVE Concat(_)
Concat(ss) == IF ss = <<>> THEN <<>> ELSE Head(ss) \o Concat(Tail(ss))

\* renderFinalPoint: one radial footprint; its alpha is (intensity / 100) * 0.6.
renderFinalPoint(pos, color, intensity, radius) ==
    [kind |-> "final", x |-> pos.x, y |-> pos.y, via |-> pos.via,
     color |-> color, intensity |-> intensity, radius |-> radius]

\* Mutant of mirrorPoint: the point is dropped onto the crease line.
mirrorPoint_ontoLine(x, y, line, direction) ==
    IF direction = "horizontal"
    THEN [x |-> x, y |-> line.y1, via |-> <<>>]
    ELSE [x |-> line.x1, y |-> y, via |-> <<>>]

mirrorPoint(x, y, line, direction) ==
    IF direction = "horizontal"
    THEN LET dy == FracSub(line.y1, y)
         IN  [x |-> x, y |-> FracAdd(line.y1, dy), via |-> <<>>]
    ELSE LET dx == FracSub(line.x1, x)
         IN  [x |-> FracAdd(line.x1, dx), y |-> y, via |-> <<>>]

renderPointWithSymmetry(point, lines, direction) ==
    LET x == Frac(point.x, 1)
        y == Frac(point.y, 1)
    IN  <<renderFinalPoint([x |-> x, y |-> y, via |-> <<>>], point.color,
                           Frac(point.intensity, 1), point.radius)>>
        \o [k \in 1..Len(lines) |->
              renderFinalPoint(mirrorPoint(x, y, lines[k], direction),
                               point.color, Frac(point.intensity, 1),
                               point.radius)]

unfoldAccordion(fold, points) ==
    Concat([i \in 1..Len(points) |->
              renderPointWithSymmetry(points[i], fold.lines, fold.direction)])

\* rotatePoint by the angle turn * 2 * pi.
rotatePoint(x, y, centerX, centerY, turn) ==
    LET cx == Frac(centerX, 1)
        cy == Frac(centerY, 1)
        dx == FracSub(x, cx)
        dy == FracSub(y, cy)
    IN  CASE turn = Frac(0, 1) ->
                [x |-> FracAdd(cx, dx), y |-> FracAdd(cy, dy), via |-> <<>>]
          [] turn = Frac(1, 4) ->
                [x |-> FracSub(cx, dy), y |-> FracAdd(cy, dx), via |-> <<>>]
          [] turn = Frac(1, 2) ->
                [x |-> FracSub(cx, dx), y |-> FracSub(cy, dy), via |-> <<>>]
          [] turn = Frac(3, 4) ->
                [x |-> FracAdd(cx, dy), y |-> FracSub(cy, dx), via |-> <<>>]
          [] OTHER ->
                [x |-> x, y |-> y,
                 via |-> <<[op |-> "rotate", arg |-> turn,
                            centerX |-> centerX, centerY |-> centerY]>>]

\* Mutant of unfoldSpiral: two copies for each rotation.
unfoldSpiral_twoPerRotation(fold, points) ==
    Concat([i \in 1..Len(points) |->
              [k \in 1..(fold.rotations * 2) |->
                 renderFinalPoint(
                     rotatePoint(Frac(points[i].x, 1), Frac(points[i].y, 1),
                                 fold.centerX, fold.centerY,
                                 Frac(k - 1, fold.rotations * 2)),
                     points[i].color, Frac(points[i].intensity, 1),
                     points[i].radius)]])

unfoldSpiral(fold, points) ==
    Concat([i \in 1..Len(points) |->
              [k \in 1..(fold.rotations * 4) |->
                 renderFinalPoint(
                     rotatePoint(Frac(points[i].x, 1), Frac(points[i].y, 1),
                                 fold.centerX, fold.centerY,
                                 Frac(k - 1, fold.rotations * 4)),
                     points[i].color, Frac(points[i].intensity, 1),
                     points[i].radius)]])

\* (Math.random() - 0.5) * 40 for the k-th anchor and the i-th dye point: a
\* number of [-20, 20) that the outcome rnd of the random source decides.
crumpleOffset(rnd, i, k) ==
    [x |-> ((rnd + 7 * i + 3 * k) % 40) - 20,
     y |-> ((rnd + 11 * i + 5 * k) % 40) - 20]

generateCrumpleVariations(point, crumplePoints, rnd, i) ==
    <<[x |-> point.x, y |-> point.y]>>
    \o [k \in 1..Len(crumplePoints) |->
          [x |-> point.x + crumpleOffset(rnd, i, k).x,
           y |-> point.y + crumpleOffset(rnd, i, k).y]]

unfoldCrumple(fold, points, rnd) ==
    Concat([i \in 1..Len(points) |->
              LET variations ==
                      generateCrumpleVariations(points[i], fold.points, rnd, i)
              IN  [k \in 1..Len(variations) |->
                     renderFinalPoint([x |-> Frac(variations[k].x, 1),
                                       y |-> Frac(variations[k].y, 1),
                                       via |-> <<>>],
                                      points[i].color,
                                      Frac(points[i].intensity * 7, 10),
                                      points[i].radius)]])

\* mirrorDiagonal: the reflection across the line through the centre at
\* the given angle (in degrees).
mirrorDiagonal(x, y, centerX, centerY, angle) ==
    LET cx == Frac(centerX, 1)
        cy == Frac(centerY, 1)
        dx == FracSub(x, cx)
        dy == FracSub(y, cy)
    IN  CASE angle % 180 = 0 ->
                [x |-> FracAdd(cx, dx), y |-> FracSub(cy, dy), via |-> <<>>]
          [] angle % 180 = 45 ->
                [x |-> FracAdd(cx, dy), y |-> FracAdd(cy, dx), via |-> <<>>]
          [] angle % 180 = 90 ->
                [x |-> FracSub(cx, dx), y |-> FracAdd(cy, dy), via |-> <<>>]
          [] angle % 180 = 135 ->
                [x |-> FracSub(cx, dy), y |-> FracSub(cy, dx), via |-> <<>>]
          [] OTHER ->
                [x |-> x, y |-> y,
                 via |-> <<[op |-> "reflect", arg |-> Frac(angle, 1),
                            centerX |-> centerX, centerY |-> centerY]>>]

unfoldDiagonal(fold, points) ==
    Concat([i \in 1..Len(points) |->
              LET x == Frac(points[i].x, 1)
                  y == Frac(points[i].y, 1)
              IN  <<renderFinalPoint([x |-> x, y |-> y, via |-> <<>>],
                                     points[i].color,
                                     Frac(points[i].intensity, 1),
                                     points[i].radius),
                    renderFinalPoint(mirrorDiagonal(x, y, CENTER_X, CENTER_Y,
                                                    fold.angle),
                                     points[i].color,
                                     Frac(points[i].intensity, 1),
                                     points[i].radius)>>])

\* applyUnfoldTransform, up to its await: what it draws on the final layer.
applyUnfoldTransform(fold, points, rnd) ==
    CASE fold.type = ACCORDION -> unfoldAccordion(fold, points)
      [] fold.type = SPIRAL -> unfoldSpiral(fold, points)
      [] fold.type = CRUMPLE -> unfoldCrumple(fold, points, rnd)
      [] fold.type = DIAGONAL -> unfoldDiagonal(fold, points)
      [] OTHER -> <<>>

\* A generatePattern invocation inside unfoldPattern: the arrays it got from
\* getFolds() and getDyePoints(), the loop counter (folds[i] is the next
\* fold to take, counted from 1; 0 ends the loop) and the folds whose
\* transform it has run, in the order it ran them.
unfoldPattern(fs, points) ==
    [folds |-> fs, dyePoints |-> points, i |-> Len(fs), applied |-> <<>>]

\* Each call of the async generatePattern is an invocation of its own (it
\* returns a new promise): it is told from the others in flight by a number
\* that none of them has.
FreshId(q) ==
    LET free == {n \in 1..(Len(q) + 1) : \A k \in 1..Len(q) : q[k].id # n}
    IN  CHOOSE n \in free : \A m \in free : n <= m

\* Mutant of unfoldPatternStep: the folds are taken first to last.
unfoldPatternStep_forward(inv, rnd) ==
    LET fold == inv.folds[Len(inv.folds) - inv.i + 1]
    IN  [inv |-> [inv EXCEPT !.i = inv.i - 1,
                             !.applied = Append(inv.applied, fold)],
         drawn |-> applyUnfoldTransform(fold, inv.dyePoints, rnd)]

\* Mutant of unfoldPatternStep: the loop counter stays where it is.
unfoldPatternStep_noProgress(inv, rnd) ==
    [inv |-> inv,
     drawn |-> applyUnfoldTransform(inv.folds[inv.i], inv.dyePoints, rnd)]

\* One turn of the loop of unfoldPattern, up to the await in
\* applyUnfoldTransform.
unfoldPatternStep(inv, rnd) ==
    LET fold == inv.folds[inv.i]
    IN  [inv |-> [inv EXCEPT !.i = inv.i - 1,
                             !.applied = Append(inv.applied, fold)],
         drawn |-> applyUnfoldTransform(fold, inv.dyePoints, rnd)]

\* copyDyeToFinal: clearRect, then drawImage of the dye layer.
copyDyeToFinal(dyeContent) == dyeContent

\* TShirtCanvas.clearLayer
clearLayer == <<>>

\* Mutant of onUnfoldComplete: the dye is cleared with DyePhysics.clear().
onUnfoldComplete_clearsDye(fe, d) ==
    [fe |-> [fe EXCEPT !.foldLayer = clearLayer],
     d |-> [d EXCEPT !.dyePoints = <<>>, !.dyeLayer = clearLayer]]

\* The handler main.js attaches to UNFOLD_COMPLETE.
onUnfoldComplete(fe, d) ==
    [fe |-> [fe EXCEPT !.foldLayer = clearLayer],
     d |-> [d EXCEPT !.dyeLayer = clearLayer]]

\* The engine and the dye model take the states fe and d.
Components(fe, d) ==
    /\ folds' = fe.folds
    /\ undoStack' = fe.undoStack
    /\ layers' = fe.layers
    /\ foldLayer' = fe.foldLayer
    /\ dyePoints' = d.dyePoints
    /\ isApplying' = d.isApplying
    /\ currentBrushSize' = d.currentBrushSize
    /\ currentIntensity' = d.currentIntensity
    /\ dyeLayer' = d.dyeLayer

\* generatePattern up to its first await, or to its end when no fold is on
\* the stack.
GeneratePattern(rnd) ==
    LET fs == getFolds(Engine)
        points == getDyePoints(Dye)
    IN  /\ lastOp' = "generatePattern"
        /\ ret' = "promise"
        /\ IF Len(fs) = 0
           THEN /\ finalLayer' = copyDyeToFinal(dyeLayer)
                /\ timers' = timers
                /\ emitted' = <<[type |-> UNFOLD_START],
                                [type |-> UNFOLD_COMPLETE]>>
                /\ Components(onUnfoldComplete(Engine, Dye).fe,
                              onUnfoldComplete(Engine, Dye).d)
           ELSE LET s == unfoldPatternStep(
                             unfoldPattern(fs, points) @@ [id |-> FreshId(timers)],
                             rnd)
                IN  /\ finalLayer' = s.drawn
                    /\ timers' = Append(timers, s.inv)
                    /\ emitted' = <<[type |-> UNFOLD_START]>>
                    /\ UNCHANGED <<foldVars, dyePoints, isApplying,
                                   currentBrushSize, currentIntensity, dyeLayer>>
        /\ Len(timers') <= MaxUnfolds
        /\ UNCHANGED <<currentColor, currentPhase, held, envVars>>

\* The timer of the longest-waiting invocation fires: the loop of
\* unfoldPattern takes its next turn, or it has ended and generatePattern
\* emits UNFOLD_COMPLETE.
TimerFires(rnd) ==
    /\ timers # <<>>
    /\ LET inv == Head(timers)
       IN  IF inv.i >= 1
           THEN LET s == unfoldPatternStep(inv, rnd)
                IN  /\ lastOp' = "applyUnfoldTransform"
                    /\ finalLayer' = finalLayer \o s.drawn
                    /\ timers' = Append(Tail(timers), s.inv)
                    /\ emitted' = <<>>
                    /\ UNCHANGED <<foldVars, dyePoints, isApplying,
                                   currentBrushSize, currentIntensity, dyeLayer>>
           ELSE /\ lastOp' = "unfoldComplete"
                /\ finalLayer' = finalLayer
                /\ timers' = Tail(timers)
                /\ emitted' = <<[type |-> UNFOLD_COMPLETE]>>
                /\ Components(onUnfoldComplete(Engine, Dye).fe,
                              onUnfoldComplete(Engine, Dye).d)
    /\ ret' = "undefined"
    /\ UNCHANGED <<currentColor, currentPhase, held, envVars>>

(***************************************************************************)
(* UIController                                                            *)
(***************************************************************************)
nextPhase(phase) ==
    CASE phase = PHASE_FOLD -> PHASE_DYE
      [] phase = PHASE_DYE -> PHASE_UNFOLD
      [] OTHER -> phase

previousPhase(phase) ==
    CASE phase = PHASE_DYE -> PHASE_FOLD
      [] phase = PHASE_UNFOLD -> PHASE_DYE
      [] OTHER -> phase

NextPhase ==
    /\ currentPhase' = nextPhase(currentPhase)
    /\ lastOp' = "nextPhase"
    /\ ret' = "undefined"
    /\ emitted' = <<[type |-> PHASE_CHANGED, phase |-> currentPhase']>>
    /\ pressed' = (pressed /\ currentPhase' = currentPhase)
    /\ UNCHANGED <<foldVars, dyeVars, finalLayer, timers, held, asked>>

PreviousPhase ==
    /\ currentPhase' = previousPhase(currentPhase)
    /\ lastOp' = "previousPhase"
    /\ ret' = "undefined"
    /\ emitted' = <<[type |-> PHASE_CHANGED, phase |-> currentPhase']>>
    /\ pressed' = (pressed /\ currentPhase' = currentPhase)
    /\ UNCHANGED <<foldVars, dyeVars, finalLayer, timers, held, asked>>

\* The canvas listeners: each acts in the dye phase only.
handleCanvasMouseDown(phase, d, x, y, color, fe) ==
    IF phase = PHASE_DYE THEN startApplying(d, x, y, color, fe)
    ELSE DyeOutcome(d, <<>>)

handleCanvasMouseMove(phase, d, x, y, color, fe) ==
    IF phase = PHASE_DYE THEN continueApplying(d, x, y, color, fe)
    ELSE DyeOutcome(d, <<>>)

handleCanvasMouseUp(phase, d) ==
    IF phase = PHASE_DYE THEN stopApplying(d) ELSE DyeOutcome(d, <<>>)

MouseDown(x, y) ==
    /\ DyeCall("mousedown",
               handleCanvasMouseDown(currentPhase, Dye, x, y, currentColor, Engine))
    /\ Len(dyePoints') <= MaxPoints
    /\ pressed' = (pressed \/ (currentPhase = PHASE_DYE /\ isPointOnShirt(x, y)))
    /\ UNCHANGED <<foldVars, currentColor, unfoldVars, asked>>

MouseMove(x, y) ==
    /\ DyeCall("mousemove",
               handleCanvasMouseMove(currentPhase, Dye, x, y, currentColor, Engine))
    /\ Len(dyePoints') <= MaxPoints
    /\ UNCHANGED <<foldVars, currentColor, unfoldVars, envVars>>

MouseUp ==
    /\ DyeCall("mouseup", handleCanvasMouseUp(currentPhase, Dye))
    /\ pressed' = FALSE
    /\ UNCHANGED <<foldVars, currentColor, unfoldVars, asked>>

\* mouseleave is wired to handleCanvasMouseUp.
MouseLeave ==
    /\ DyeCall("mouseleave", handleCanvasMouseUp(currentPhase, Dye))
    /\ pressed' = FALSE
    /\ UNCHANGED <<foldVars, currentColor, unfoldVars, asked>>

\* A click on the unfold button, which updatePhaseDisplay shows in the
\* unfold phase only.
UnfoldClick(rnd) ==
    /\ currentPhase = PHASE_UNFOLD
    /\ GeneratePattern(rnd)

\* reset(): both clears, the final layer is erased, the phase is FOLD.  The
\* invocations waiting for a timer are not touched.
Reset ==
    /\ Components(clear(Engine), clearDye(Dye))
    /\ held' = [live |-> FALSE, points |-> held.points]
    /\ finalLayer' = clearLayer
    /\ currentPhase' = PHASE_FOLD
    /\ lastOp' = "reset"
    /\ ret' = "undefined"
    /\ emitted' = clear(Engine).events \o clearDye(Dye).events
    /\ pressed' = (pressed /\ currentPhase' = currentPhase)
    /\ UNCHANGED <<currentColor, timers, asked>>

(***************************************************************************)
(* The state after construction (main.js init).                            *)
(***************************************************************************)
Init ==
    /\ folds = <<>>
    /\ undoStack = <<>>
    /\ layers = <<>>
    /\ foldLayer = <<>>
    /\ currentColor = [r |-> 255, g |-> 0, b |-> 0]
    /\ dyePoints = <<>>
    /\ isApplying = FALSE
    /\ currentBrushSize = BRUSH_DEFAULT_SIZE
    /\ currentIntensity = DEFAULT_INTENSITY
    /\ dyeLayer = <<>>
    /\ finalLayer = <<>>
    /\ timers = <<>>
    /\ currentPhase = PHASE_FOLD
    /\ held = [live |-> FALSE, points |-> <<>>]
    /\ asked = <<>>
    /\ pressed = FALSE
    /\ lastOp = "constructor"
    /\ ret = "undefined"
    /\ emitted = <<>>

(***************************************************************************)
(* Inputs.                                                                 *)
(***************************************************************************)
\* The empty parameter object {}.
NoParams == <<>>

\* Outcomes of generateRandomCrumplePoints(5).
CrumpleSamples ==
    {<<[x |-> 250, y |-> 180], [x |-> 250, y |-> 180], [x |-> 250, y |-> 180],
       [x |-> 250, y |-> 180], [x |-> 250, y |-> 180]>>,
     <<[x |-> 300, y |-> 200], [x |-> 400, y |-> 300], [x |-> 500, y |-> 400],
       [x |-> 549, y |-> 499], [x |-> 250, y |-> 180]>>}

\* The calls the fold buttons make (UIController.getFoldParameters), calls
\* with other parameters of the documented ranges, and a fold type outside
\* the four families.
FoldInputs ==
    {[foldType |-> ACCORDION, params |-> [direction |-> "horizontal", numFolds |-> 3]],
     [foldType |-> ACCORDION, params |-> [direction |-> "vertical", numFolds |-> 8]],
     [foldType |-> SPIRAL, params |-> [rotations |-> 2]],
     [foldType |-> CRUMPLE, params |-> NoParams],
     [foldType |-> DIAGONAL, params |-> [angle |-> 45]],
     [foldType |-> "twist", params |-> [angle |-> 45]]}

NextFold ==
    \/ \E in \in FoldInputs, rnd \in CrumpleSamples :
            ApplyFold(in.foldType, in.params, rnd)
    \/ Undo
    \/ Redo
    \/ ClearFolds

SpecFold == Init /\ [][NextFold]_vars

(***************************************************************************)
(* Strokes: the dye model alone, with positions on the body, on a sleeve   *)
(* and off the garment, a colour change, and one in-range value for each   *)
(* slider.                                                                 *)
(***************************************************************************)
StrokePoints ==
    {[x |-> 400, y |-> 300], [x |-> 200, y |-> 250],
     [x |-> 100, y |-> 100], [x |-> 300, y |-> 150]}

HexInputs == {"#0000ff", "#ff0000", "blue"}

NextStroke ==
    \/ \E p \in StrokePoints : StartApplying(p.x, p.y)
    \/ \E p \in StrokePoints : ContinueApplying(p.x, p.y)
    \/ StopApplying
    \/ ClearDye
    \/ \E hex \in HexInputs : SetColor(hex)
    \/ SetIntensity(90)
    \/ SetBrushSize(35)

SpecStroke == Init /\ [][NextStroke]_vars

(***************************************************************************)
(* Sliders: the dye model alone, with values below, within and above the   *)
(* range of each slider.                                                   *)
(***************************************************************************)
IntensityInputs == {0 - 10, 60, 150}

BrushInputs == {0 - 3, 30, 500}

ClampPoints == {[x |-> 400, y |-> 300], [x |-> 100, y |-> 100]}

NextClamp ==
    \/ \E v \in IntensityInputs : SetIntensity(v)
    \/ \E v \in BrushInputs : SetBrushSize(v)
    \/ \E p \in ClampPoints : StartApplying(p.x, p.y)
    \/ \E p \in ClampPoints : ContinueApplying(p.x, p.y)
    \/ StopApplying
    \/ ClearDye

SpecClamp == Init /\ [][NextClamp]_vars

(***************************************************************************)
(* Dye on a folded garment: the fold stack and the dye model together.     *)
(***************************************************************************)
SnapFoldInputs ==
    {[foldType |-> ACCORDION, params |-> [direction |-> "horizontal", numFolds |-> 3]]}

SnapPoints == {[x |-> 400, y |-> 300]}

NextSnap ==
    \/ \E in \in SnapFoldInputs, rnd \in CrumpleSamples :
            ApplyFold(in.foldType, in.params, rnd)
    \/ Undo
    \/ Redo
    \/ ClearFolds
    \/ \E p \in SnapPoints : StartApplying(p.x, p.y)
    \/ \E p \in SnapPoints : ContinueApplying(p.x, p.y)
    \/ StopApplying
    \/ ClearDye

SpecSnap == Init /\ [][NextSnap]_vars

(***************************************************************************)
(* Snapshots: strokes, the dye clear, reset and the unfold of an unfolded   *)
(* garment, with a caller that takes the recorded points from time to      *)
(* time.                                                                   *)
(***************************************************************************)
AppendPoints == {[x |-> 400, y |-> 300], [x |-> 100, y |-> 100]}

JitterSeeds == {0, 13}

NextAppend ==
    \/ \E p \in AppendPoints : StartApplying(p.x, p.y)
    \/ \E p \in AppendPoints : ContinueApplying(p.x, p.y)
    \/ StopApplying
    \/ ClearDye
    \/ GetDyePoints
    \/ SetIntensity(90)
    \/ \E rnd \in JitterSeeds : GeneratePattern(rnd)
    \/ Reset

SpecAppend == Init /\ [][NextAppend]_vars

(***************************************************************************)
(* Fold parameters: applyFold takes whatever parameter object it is given. *)
(* The calls of the fold buttons, and calls with an empty anchor list and  *)
(* with a negative fold count.                                             *)
(***************************************************************************)
ParamInputs ==
    {[foldType |-> ACCORDION, params |-> [direction |-> "horizontal", numFolds |-> 3]],
     [foldType |-> DIAGONAL, params |-> [angle |-> 45]],
     [foldType |-> CRUMPLE, params |-> [points |-> <<>>]],
     [foldType |-> ACCORDION, params |-> [direction |-> "vertical", numFolds |-> 0 - 2]]}

NextParams ==
    \/ \E in \in ParamInputs, rnd \in CrumpleSamples :
            ApplyFold(in.foldType, in.params, rnd)
    \/ Undo
    \/ Redo
    \/ ClearFolds

SpecParams == Init /\ [][NextParams]_vars

(***************************************************************************)
(* Unfolding: folds whose transforms are exact and one dye position.       *)
(***************************************************************************)
UnfoldFoldInputs ==
    {[foldType |-> ACCORDION, params |-> [direction |-> "horizontal", numFolds |-> 3]],
     [foldType |-> DIAGONAL, params |-> [angle |-> 45]]}

UnfoldPoints == {[x |-> 300, y |-> 250]}

FrameFoldInputs ==
    {[foldType |-> ACCORDION, params |-> [direction |-> "horizontal", numFolds |-> 3]]}

\* Nothing else runs between the start of an unfold and its completion.
NextFrame ==
    \/ /\ timers = <<>>
       /\ \E in \in FrameFoldInputs, rnd \in CrumpleSamples :
              ApplyFold(in.foldType, in.params, rnd)
    \/ timers = <<>> /\ Undo
    \/ timers = <<>> /\ \E p \in UnfoldPoints : StartApplying(p.x, p.y)
    \/ timers = <<>> /\ \E rnd \in JitterSeeds : GeneratePattern(rnd)
    \/ \E rnd \in JitterSeeds : TimerFires(rnd)

SpecFrame == Init /\ [][NextFrame]_vars

(***************************************************************************)
(* The order of the unfold: the fold stack changes while invocations wait. *)
(***************************************************************************)
NextOrder ==
    \/ \E in \in UnfoldFoldInputs, rnd \in CrumpleSamples :
            ApplyFold(in.foldType, in.params, rnd)
    \/ Undo
    \/ \E rnd \in JitterSeeds : GeneratePattern(rnd)
    \/ \E rnd \in JitterSeeds : TimerFires(rnd)

SpecOrder == Init /\ [][NextOrder]_vars

(***************************************************************************)
(* The wired application: the buttons of the three phases, strokes in the  *)
(* dye phase, reset, and the timers of the unfolds in flight.              *)
(***************************************************************************)
NextWired ==
    \/ NextPhase
    \/ PreviousPhase
    \/ /\ currentPhase = PHASE_FOLD
       /\ \E in \in SnapFoldInputs, rnd \in CrumpleSamples :
              ApplyFold(in.foldType, in.params, rnd)
    \/ /\ currentPhase = PHASE_DYE
       /\ \E p \in UnfoldPoints : StartApplying(p.x, p.y)
    \/ \E rnd \in JitterSeeds : UnfoldClick(rnd)
    \/ \E rnd \in JitterSeeds : TimerFires(rnd)
    \/ Reset

SpecWired == Init /\ [][NextWired]_vars

(***************************************************************************)
(* Symmetric unfolds: accordion folds of both directions and spiral folds  *)
(* of one and two rotations, one unfold at a time.                         *)
(***************************************************************************)
SymmetryFoldInputs ==
    {[foldType |-> ACCORDION, params |-> [direction |-> "horizontal", numFolds |-> 3]],
     [foldType |-> ACCORDION, params |-> [direction |-> "vertical", numFolds |-> 2]],
     [foldType |-> SPIRAL, params |-> [rotations |-> 1]],
     [foldType |-> SPIRAL, params |-> [rotations |-> 2]]}

SymmetryPoints == {[x |-> 300, y |-> 250]}

NextSymmetry ==
    \/ /\ timers = <<>>
       /\ Len(folds) < SymMaxFolds
       /\ \E in \in SymmetryFoldInputs, rnd \in CrumpleSamples :
              ApplyFold(in.foldType, in.params, rnd)
    \/ timers = <<>> /\ ClearFolds
    \/ /\ timers = <<>>
       /\ Len(dyePoints) < SymMaxPoints
       /\ \E p \in SymmetryPoints : StartApplying(p.x, p.y)
    \/ timers = <<>> /\ \E rnd \in JitterSeeds : GeneratePattern(rnd)
    \/ \E rnd \in JitterSeeds : TimerFires(rnd)

SpecSymmetry == Init /\ [][NextSymmetry]_vars

(***************************************************************************)
(* Colour mixing: calls of mixColors with colours whose channels are 0, 8, *)
(* 58 and 255 and with the ratios 0, 0.01, 0.5 and 1.                      *)
(***************************************************************************)
MixColours ==
    {[r |-> 8, g |-> 58, b |-> 0], [r |-> 58, g |-> 8, b |-> 255],
     [r |-> 255, g |-> 0, b |-> 0], [r |-> 0, g |-> 0, b |-> 255],
     [r |-> 255, g |-> 255, b |-> 255], [r |-> 0, g |-> 0, b |-> 0],
     [r |-> 255, g |-> 255, b |-> 0], [r |-> 0, g |-> 255, b |-> 0],
     [r |-> 58, g |-> 58, b |-> 8]}

MixRatios == {Frac(0, 1), Frac(1, 100), Frac(1, 2), Frac(1, 1)}

NextMix ==
    \E color1 \in MixColours, color2 \in MixColours, ratio \in MixRatios :
        MixColors(color1, color2, ratio)

SpecMix == Init /\ [][NextMix]_vars

(***************************************************************************)
(* Point queries: dye of two colours at two positions of one vertical      *)
(* line, and queries on a point, on the rim of a footprint, just off it    *)
(* and far from all dye.                                                   *)
(***************************************************************************)
BlendPoints == {[x |-> 400, y |-> 300], [x |-> 400, y |-> 310]}

BlendQueries ==
    {[x |-> 400, y |-> 300], [x |-> 400, y |-> 320], [x |-> 400, y |-> 321],
     [x |-> 400, y |-> 331], [x |-> 100, y |-> 100]}

NextBlend ==
    \/ \E q \in BlendQueries : MixDyesAtPoint(q.x, q.y)
    \/ \E p \in BlendPoints : StartApplying(p.x, p.y)
    \/ SetColor("#0000ff")
    \/ SetIntensity(90)
    \/ ClearDye

SpecBlend == Init /\ [][NextBlend]_vars

(***************************************************************************)
(* Crease lines: accordion folds of both directions and of one to five     *)
(* creases.                                                                *)
(***************************************************************************)
CreaseFoldInputs ==
    {[foldType |-> ACCORDION, params |-> [direction |-> d, numFolds |-> n]] :
        d \in {"horizontal", "vertical"}, n \in {1, 3, 4, 5}}

NextCrease ==
    \/ \E in \in CreaseFoldInputs, rnd \in CrumpleSamples :
            ApplyFold(in.foldType, in.params, rnd)
    \/ Undo
    \/ Redo
    \/ ClearFolds

SpecCrease == Init /\ [][NextCrease]_vars

(***************************************************************************)
(* Termination of the unfold: folds, undo, reset and unfolds that overlap, *)
(* with no dye.  The timers of setTimeout fire: the browser runs a timer   *)
(* that is due, so the step TimerFires is weakly fair.                     *)
(***************************************************************************)
NextLive ==
    \/ \E in \in FrameFoldInputs, rnd \in CrumpleSamples :
            ApplyFold(in.foldType, in.params, rnd)
    \/ Undo
    \/ \E rnd \in JitterSeeds : GeneratePattern(rnd)
    \/ \E rnd \in JitterSeeds : TimerFires(rnd)
    \/ Reset

SpecLive ==
    /\ Init
    /\ [][NextLive]_vars
    /\ WF_vars(\E rnd \in JitterSeeds : TimerFires(rnd))

(***************************************************************************)
(* The mouse on the canvas: the phase buttons and the four canvas events,  *)
(* with a position on the garment and one off it.                          *)
(***************************************************************************)
MousePoints ==
    {[x |-> 400, y |-> 300], [x |-> 300, y |-> 250], [x |-> 100, y |-> 100]}

NextMouse ==
    \/ NextPhase
    \/ PreviousPhase
    \/ \E p \in MousePoints : MouseDown(p.x, p.y)
    \/ \E p \in MousePoints : MouseMove(p.x, p.y)
    \/ MouseUp
    \/ MouseLeave

SpecMouse == Init /\ [][NextMouse]_vars

(***************************************************************************)
(* Properties of the fold stack.                                           *)
(***************************************************************************)
\* C1, as claimed: getLayers() always holds at least one layer, as many as
\* min(product of the layerMultipliers of the stack, MAX_LAYERS), and one
\* layer when the stack is empty.
C1_LayersAtLeastOne ==
    /\ Len(getLayers(Engine)) >= 1
    /\ Len(getLayers(Engine)) = Min(Multiplier(getFolds(Engine)), MAX_LAYERS)
    /\ getFolds(Engine) = <<>> => Len(getLayers(Engine)) = 1

\* C1, amended: getLayers() holds min(product of the layerMultipliers,
\* MAX_LAYERS) layers in every state but those with an empty stack that follow
\* construction or clear, where it is empty; after clear it is empty, after an
\* undo that empties the stack it holds one layer; and the layer count the
\* dye model derives from it, max(1, length), is at least 1 and equals
\* max(1, min(product, MAX_LAYERS)) in every state.
C1_LayerCount ==
    /\ \/ Len(getLayers(Engine)) = Min(Multiplier(getFolds(Engine)), MAX_LAYERS)
       \/ getFolds(Engine) = <<>> /\ getLayers(Engine) = <<>>
    /\ lastOp \in {"constructor", "clear"} => getLayers(Engine) = <<>>
    /\ lastOp = "undo" /\ ret = "true" /\ getFolds(Engine) = <<>>
         => Len(getLayers(Engine)) = 1
    /\ effectiveLayerCount(Engine) >= 1
    /\ effectiveLayerCount(Engine) =
         Max(1, Min(Multiplier(getFolds(Engine)), MAX_LAYERS))

\* C1: a stack whose product exceeds the cap has exactly MAX_LAYERS layers.
C1_Witness ==
    /\ Multiplier(folds) > MAX_LAYERS
    /\ Len(layers) = MAX_LAYERS
    /\ Len(folds) >= 2

\* C2: an applyFold at the layer cap, or with a fold type outside the four
\* families, returns false, leaves the stack, the redo buffer and the layers
\* as they were and emits nothing.
C2_RejectedApplyFold ==
    [][\A in \in FoldInputs, rnd \in CrumpleSamples :
          (/\ ApplyFold(in.foldType, in.params, rnd)
           /\ \/ Len(getLayers(Engine)) >= MAX_LAYERS
              \/ in.foldType \notin FOLD_TYPES)
          => /\ ret' = "false"
             /\ folds' = folds
             /\ undoStack' = undoStack
             /\ layers' = layers
             /\ emitted' = <<>>]_vars

\* C2: an applyFold was refused at the cap (with a non-empty stack and a
\* non-empty redo buffer, no other call returns false).
C2_Witness ==
    /\ lastOp = "applyFold"
    /\ ret = "false"
    /\ Len(layers) >= MAX_LAYERS
    /\ undoStack # <<>>

\* C3: wherever the stack is non-empty, undo followed by redo returns true
\* twice and gives back the stack, the layers and the redo buffer.
C3_UndoRedoRestores ==
    getFolds(Engine) # <<>> =>
        LET u == undo(Engine)
            r == redo(u)
        IN  /\ u.ret = "true"
            /\ r.ret = "true"
            /\ r.folds = folds
            /\ r.layers = layers
            /\ r.undoStack = undoStack

\* C3: a redo has just restored a stack of two folds over a stale redo buffer.
C3_Witness ==
    /\ lastOp = "redo"
    /\ ret = "true"
    /\ Len(folds) = 2
    /\ undoStack # <<>>

\* The fold inputs createFold accepts.
ValidFoldInputs == {in \in FoldInputs : in.foldType \in FOLD_TYPES}

\* C4: from every state where applyFold(A) is accepted, applyFold(A), undo(),
\* applyFold(B), redo(): both applyFold calls leave the redo buffer as it was,
\* the redo returns true and the stack ends with B then A.
C4_StaleRedo ==
    \A a \in ValidFoldInputs, b \in ValidFoldInputs, rnd \in CrumpleSamples :
        LET s1 == applyFold(Engine, a.foldType, a.params, rnd)
            s2 == undo(s1)
            s3 == applyFold(s2, b.foldType, b.params, rnd)
            s4 == redo(s3)
            A == s1.folds[Len(s1.folds)]
            B == s3.folds[Len(s3.folds)]
        IN  s1.ret = "true" =>
                /\ s1.undoStack = undoStack
                /\ s2.undoStack = Append(undoStack, A)
                /\ s3.ret = "true"
                /\ s3.undoStack = s2.undoStack
                /\ s4.ret = "true"
                /\ s4.folds = folds \o <<B, A>>

\* C4: an accepted applyFold has just run over a non-empty redo buffer.
C4_Witness ==
    /\ lastOp = "applyFold"
    /\ ret = "true"
    /\ undoStack # <<>>
    /\ Len(folds) = 2

\* C5: undo on an empty stack and redo on an empty redo buffer return false
\* and change and emit nothing; otherwise each moves exactly the last entry
\* of one sequence onto the end of the other and returns true.
C5_UndoRedoSteps ==
    [][/\ lastOp' = "undo" =>
            IF folds = <<>>
            THEN /\ ret' = "false"
                 /\ UNCHANGED <<folds, undoStack, layers>>
                 /\ emitted' = <<>>
            ELSE /\ ret' = "true"
                 /\ folds' = SubSeq(folds, 1, Len(folds) - 1)
                 /\ undoStack' = Append(undoStack, folds[Len(folds)])
       /\ lastOp' = "redo" =>
            IF undoStack = <<>>
            THEN /\ ret' = "false"
                 /\ UNCHANGED <<folds, undoStack, layers>>
                 /\ emitted' = <<>>
            ELSE /\ ret' = "true"
                 /\ undoStack' = SubSeq(undoStack, 1, Len(undoStack) - 1)
                 /\ folds' = Append(folds, undoStack[Len(undoStack)])]_vars

\* C5: an undo has just been refused on an empty stack while the redo buffer
\* held folds.
C5_Witness ==
    /\ lastOp = "undo"
    /\ ret = "false"
    /\ folds = <<>>
    /\ undoStack # <<>>

(***************************************************************************)
(* Properties of clear, of strokes and of recorded dye points.             *)
(***************************************************************************)
\* C6: after FoldingEngine.clear() the stack and the layers are empty and a
\* redo returns false; after DyePhysics.clear() no dye point is recorded; each
\* clear emits its 'cleared' notification once and nothing else.
C6_Cleared ==
    /\ lastOp = "clear" =>
            /\ getFolds(Engine) = <<>>
            /\ getLayers(Engine) = <<>>
            /\ redo(Engine).ret = "false"
            /\ emitted = <<[type |-> FOLD_CLEARED]>>
    /\ lastOp = "clearDye" =>
            /\ getDyePoints(Dye) = <<>>
            /\ emitted = <<[type |-> DYE_CLEARED]>>

\* C6: the dye was cleared in mid-stroke (so recorded points were discarded)
\* on a folded garment.
C6_Witness ==
    /\ lastOp = "clearDye"
    /\ isApplying
    /\ dyePoints = <<>>
    /\ folds # <<>>

\* The occupiable area: the body rectangle and the two sleeve rectangles of
\* the shirt geometry, edges included.
InRect(x, y, rect) ==
    /\ x >= Min(rect.x, rect.x + rect.width)
    /\ x <= Max(rect.x, rect.x + rect.width)
    /\ y >= rect.y
    /\ y <= rect.y + rect.height

OnGarment(x, y) ==
    \/ InRect(x, y, createShirtGeometry.body)
    \/ InRect(x, y, createShirtGeometry.sleeves[1])
    \/ InRect(x, y, createShirtGeometry.sleeves[2])

\* A step that appends exactly one dye point at (x, y) with the colour,
\* intensity and brush size current before the step, and announces it.
RecordsOne(x, y) ==
    /\ Len(dyePoints') = Len(dyePoints) + 1
    /\ SubSeq(dyePoints', 1, Len(dyePoints)) = dyePoints
    /\ LET dyePoint == dyePoints'[Len(dyePoints')]
       IN  /\ dyePoint.x = x
           /\ dyePoint.y = y
           /\ dyePoint.color = currentColor
           /\ dyePoint.intensity = currentIntensity
           /\ dyePoint.radius = currentBrushSize
           /\ emitted' = <<[type |-> DYE_APPLIED, dyePoint |-> dyePoint]>>

RecordsNone ==
    /\ dyePoints' = dyePoints
    /\ emitted' = <<>>

\* C7: startApplying at a point off the garment records nothing, emits
\* nothing and leaves the applying flag as it was; at a point on the garment
\* it sets the flag and appends exactly one dye point with the current
\* colour, intensity and brush size.
C7_BeginStroke ==
    [][\A p \in StrokePoints :
          StartApplying(p.x, p.y) =>
              IF OnGarment(p.x, p.y)
              THEN isApplying' /\ RecordsOne(p.x, p.y)
              ELSE isApplying' = isApplying /\ RecordsNone]_vars

\* C7: a startApplying off the garment was ignored during a stroke.
C7_Witness ==
    /\ lastOp = "startApplying"
    /\ emitted = <<>>
    /\ isApplying
    /\ Len(dyePoints) = 1

\* C8: continueApplying appends exactly one dye point iff the model is
\* applying and the point is on the garment, and never changes the flag;
\* stopApplying clears the flag, records nothing and is idempotent; only a
\* startApplying that records a point sets the flag again.
C8_ContinueStroke ==
    /\ [](stopApplying(stopApplying(Dye)) = stopApplying(Dye))
    /\ [][/\ \A p \in StrokePoints :
                ContinueApplying(p.x, p.y) =>
                    /\ isApplying' = isApplying
                    /\ IF isApplying /\ OnGarment(p.x, p.y)
                       THEN RecordsOne(p.x, p.y)
                       ELSE RecordsNone
          /\ lastOp' = "stopApplying" => ~isApplying' /\ RecordsNone
          /\ ~isApplying /\ isApplying' =>
                /\ lastOp' = "startApplying"
                /\ Len(dyePoints') = Len(dyePoints) + 1]_vars

\* C8: a continueApplying off the garment was skipped and the stroke is
\* still going on.
C8_Witness ==
    /\ lastOp = "continueApplying"
    /\ emitted = <<>>
    /\ isApplying
    /\ Len(dyePoints) = 1

\* C9: a dye point is recorded with the effective layer count of the fold
\* stack at that moment, min(product of the layerMultipliers, MAX_LAYERS)
\* and 1 for an empty stack, and no applyFold, undo, redo or fold clear
\* changes a recorded point.
C9_LayerSnapshot ==
    [][/\ Len(dyePoints') > Len(dyePoints) =>
            /\ Len(dyePoints') = Len(dyePoints) + 1
            /\ dyePoints'[Len(dyePoints')].layerCount =
                 IF folds = <<>> THEN 1
                 ELSE Min(Multiplier(folds), MAX_LAYERS)
       /\ lastOp' \in {"applyFold", "undo", "redo", "clear"} =>
            dyePoints' = dyePoints]_vars

\* C9: a point recorded at the layer cap is kept, with its count, after the
\* folds were cleared.
C9_Witness ==
    /\ dyePoints # <<>>
    /\ dyePoints[1].layerCount = MAX_LAYERS
    /\ lastOp = "clear"

\* C10: every recorded dye point has its intensity within
\* [MIN_INTENSITY, MAX_INTENSITY] and its radius within
\* [BRUSH_MIN_SIZE, BRUSH_MAX_SIZE].
C10_Clamped ==
    \A i \in 1..Len(getDyePoints(Dye)) :
        /\ getDyePoints(Dye)[i].intensity >= MIN_INTENSITY
        /\ getDyePoints(Dye)[i].intensity <= MAX_INTENSITY
        /\ getDyePoints(Dye)[i].radius >= BRUSH_MIN_SIZE
        /\ getDyePoints(Dye)[i].radius <= BRUSH_MAX_SIZE

\* C10: a point was recorded after setIntensity(-10) and setBrushSize(500).
C10_Witness ==
    \E i \in 1..Len(dyePoints) :
        /\ dyePoints[i].intensity = MIN_INTENSITY
        /\ dyePoints[i].radius = BRUSH_MAX_SIZE

(***************************************************************************)
(* Properties of the recorded points as a sequence.                        *)
(***************************************************************************)
\* C11: every operation other than DyePhysics.clear (which reset() calls)
\* leaves the recorded dye points as an unchanged prefix of the sequence, and
\* an array returned by getDyePoints() keeps its content whatever is called
\* afterwards, until the caller takes a new one.
C11_AppendOnly ==
    [][/\ lastOp' \notin {"clearDye", "reset"} =>
            /\ Len(dyePoints') >= Len(dyePoints)
            /\ SubSeq(dyePoints', 1, Len(dyePoints)) = dyePoints
       /\ lastOp' # "getDyePoints" => held'.points = held.points]_vars

\* C11: a caller holds the one point recorded when it asked, and a later
\* continueApplying has recorded a second point.
C11_Witness ==
    /\ Len(held.points) = 1
    /\ Len(dyePoints) = 2
    /\ lastOp = "continueApplying"

(***************************************************************************)
(* Properties of the folds on the stack and of their notifications.        *)
(***************************************************************************)
\* C12, as claimed: every fold on the stack has a layerMultiplier of at least
\* 1 that its family determines (accordion: numFolds, spiral: rotations * 2,
\* crumple: the number of anchor points, diagonal: 2), and one horizontal
\* accordion fold of 3 on an empty stack gives an effective layer count of 3
\* and exactly 3 crease lines.
C12_MultiplierAtLeastOne ==
    /\ \A i \in 1..Len(getFolds(Engine)) :
          LET fold == getFolds(Engine)[i]
          IN  /\ fold.layerMultiplier >= 1
              /\ fold.type = ACCORDION => fold.layerMultiplier = fold.numFolds
              /\ fold.type = SPIRAL => fold.layerMultiplier = fold.rotations * 2
              /\ fold.type = CRUMPLE => fold.layerMultiplier = Len(fold.points)
              /\ fold.type = DIAGONAL => fold.layerMultiplier = 2
    /\ LET s == applyFold(clear(Engine), ACCORDION,
                          [direction |-> "horizontal", numFolds |-> 3], <<>>)
       IN  /\ s.ret = "true"
           /\ effectiveLayerCount(s) = 3
           /\ Len(s.folds[1].lines) = 3

\* C13, as claimed: every step that adds a fold to the stack, by applyFold or
\* by redo, emits one FOLD_APPLIED notification that carries the added fold
\* and the layers as they are after the step.
C13_FoldAppliedPayload ==
    [][Len(folds') = Len(folds) + 1 /\ ret' = "true" =>
          emitted' = <<[type |-> FOLD_APPLIED,
                        fold |-> folds'[Len(folds')],
                        layers |-> getLayers(Engine)']>>]_vars

\* k rounds of applyFold(DIAGONAL) followed by undo, from the engine state fe.
RECURSIVE Rounds(_, _)
Rounds(fe, k) ==
    IF k = 0 THEN fe
    ELSE Rounds(undo(applyFold(fe, DIAGONAL, [angle |-> 45], <<>>)), k - 1)

\* C14, as claimed, with the fixed limit taken as RedoLimit: the redo buffer
\* never holds more than RedoLimit folds, also not after RedoLimit + 1 rounds
\* of applyFold followed by undo.
C14_RedoBounded ==
    /\ Len(undoStack) <= RedoLimit
    /\ Len(Rounds(Engine, RedoLimit + 1).undoStack) <= RedoLimit

(***************************************************************************)
(* Properties of the unfold.                                               *)
(***************************************************************************)
Reverse(q) == [j \in 1..Len(q) |-> q[Len(q) + 1 - j]]

\* C15: an invocation of generatePattern keeps the fold stack as it was at
\* its start, whatever is applied or undone while it waits; the transforms it
\* has run are those of the last folds of that snapshot, last applied fold
\* first, each once; and it emits UNFOLD_COMPLETE only when it has run the
\* transforms of all folds of the snapshot, that of the first applied fold
\* last.
C15_ReverseOrder ==
    /\ [](\A k \in 1..Len(timers) :
            LET inv == timers[k]
                n == Len(inv.folds)
            IN  inv.applied = [j \in 1..(n - inv.i) |-> inv.folds[n + 1 - j]])
    /\ [][/\ lastOp' = "generatePattern" /\ getFolds(Engine) # <<>> =>
               /\ Len(timers') = Len(timers) + 1
               /\ timers'[Len(timers')].folds = getFolds(Engine)
          /\ lastOp' = "applyUnfoldTransform" =>
               timers'[Len(timers')].folds = Head(timers).folds
          /\ lastOp' = "unfoldComplete" =>
               /\ Head(timers).applied = Reverse(Head(timers).folds)
               /\ emitted' = <<[type |-> UNFOLD_COMPLETE]>>
          /\ lastOp' # "unfoldComplete" /\ getFolds(Engine) # <<>> =>
               \A e \in 1..Len(emitted') : emitted'[e].type # UNFOLD_COMPLETE]_vars

\* C15: an invocation has run the transforms of both folds of its snapshot
\* and waits for its last timer, while the stack has changed since its start.
C15_Witness ==
    \E k \in 1..Len(timers) :
        /\ timers[k].i = 0
        /\ Len(timers[k].folds) = 2
        /\ timers[k].folds[1] # timers[k].folds[2]
        /\ timers[k].folds # folds

\* The positions a fold's transform renders for the position pos.
Images(fold, pos) ==
    CASE fold.type = ACCORDION ->
            {pos} \cup {mirrorPoint(pos.x, pos.y, fold.lines[k], fold.direction) :
                            k \in 1..Len(fold.lines)}
      [] fold.type = DIAGONAL ->
            {pos, mirrorDiagonal(pos.x, pos.y, CENTER_X, CENTER_Y, fold.angle)}
      [] fold.type = SPIRAL ->
            {rotatePoint(pos.x, pos.y, fold.centerX, fold.centerY,
                         Frac(k - 1, fold.rotations * 4)) :
                k \in 1..(fold.rotations * 4)}
      [] OTHER -> {pos}

\* The positions of the copies of pos after the folds of unwound have been
\* unwound in that order, each transform taking the copies of those before.
RECURSIVE Composed(_, _)
Composed(unwound, pos) ==
    IF unwound = <<>> THEN {pos}
    ELSE UNION {Images(unwound[Len(unwound)], c) :
                    c \in Composed(SubSeq(unwound, 1, Len(unwound) - 1), pos)}

\* C16, as claimed: when an unfold of two or more folds completes with
\* nothing run in between, the final layer holds, for every dye point, a
\* footprint at every composed copy: the images under each later-unwound
\* fold of the copies the earlier-unwound folds produced.
C16_TransformsCompose ==
    [][lastOp' = "unfoldComplete" /\ Len(Head(timers).folds) >= 2 =>
          \A i \in 1..Len(Head(timers).dyePoints) :
              LET point == Head(timers).dyePoints[i]
                  pos == [x |-> Frac(point.x, 1), y |-> Frac(point.y, 1),
                          via |-> <<>>]
              IN  \A c \in Composed(Reverse(Head(timers).folds), pos) :
                      \E f \in 1..Len(finalLayer') :
                          /\ finalLayer'[f].x = c.x
                          /\ finalLayer'[f].y = c.y
                          /\ finalLayer'[f].via = c.via
                          /\ finalLayer'[f].color = point.color]_vars

\* What applyDye has drawn for the recorded points: the footprint of each
\* and its bleed.
FootprintsOf(points) ==
    Concat([i \in 1..Len(points) |->
              <<renderDyePoint(points[i])>>
              \o simulateBleed(points[i], points[i].radius)])

\* C17, as claimed: with an empty fold stack generatePattern emits
\* UNFOLD_START then UNFOLD_COMPLETE in the call itself and leaves on the
\* final layer a copy of the dye layer as it was, which is a footprint for
\* every recorded dye point and nothing else.
C17_EmptyStackCopy ==
    [][lastOp' = "generatePattern" /\ getFolds(Engine) = <<>> =>
          /\ emitted' = <<[type |-> UNFOLD_START], [type |-> UNFOLD_COMPLETE]>>
          /\ timers' = timers
          /\ finalLayer' = dyeLayer
          /\ finalLayer' = FootprintsOf(getDyePoints(Dye))]_vars

\* The final layer an invocation leaves when its turns run without delay.
WithoutDelay(inv) ==
    Concat([j \in 1..Len(inv.folds) |->
              applyUnfoldTransform(inv.folds[Len(inv.folds) + 1 - j],
                                   inv.dyePoints, 0)])

\* C18, as claimed: when an invocation emits UNFOLD_COMPLETE the final layer
\* holds what its transforms draw when run without delay, whatever was
\* called while it waited.
C18_DelayHasNoEffect ==
    [][lastOp' = "unfoldComplete" =>
          finalLayer' = WithoutDelay(Head(timers))]_vars

\* C19, as claimed: no generatePattern starts (emitting UNFOLD_START) while
\* an earlier invocation has not emitted its UNFOLD_COMPLETE.
C19_OneUnfoldInFlight ==
    [][lastOp' = "generatePattern" => timers = <<>>]_vars

\* C20: from the invocation of generatePattern to its UNFOLD_COMPLETE, no
\* step of it changes the fold stack, the redo buffer, the layers, the
\* recorded dye points or the applying flag, and with nothing run in
\* between the stack and the points at completion are those it started with.
C20_UnfoldFrame ==
    [][lastOp' \in {"generatePattern", "applyUnfoldTransform", "unfoldComplete"} =>
          /\ UNCHANGED <<folds, undoStack, layers, dyePoints, isApplying>>
          /\ lastOp' = "unfoldComplete" =>
                /\ Head(timers).folds = getFolds(Engine)'
                /\ Head(timers).dyePoints = getDyePoints(Dye)']_vars

\* C20: an unfold of two folds has completed in mid-stroke, with dye
\* recorded and a fold in the redo buffer.
C20_Witness ==
    /\ lastOp = "unfoldComplete"
    /\ Len(folds) = 2
    /\ undoStack # <<>>
    /\ dyePoints # <<>>
    /\ isApplying

(***************************************************************************)
(* Properties of the single transforms.                                    *)
(***************************************************************************)
\* The step ran the transform of one fold (the first turn of the loop inside
\* generatePattern, or a later turn when a timer fired).
TransformStep ==
    \/ lastOp' = "applyUnfoldTransform"
    \/ lastOp' = "generatePattern" /\ folds # <<>>

\* The invocation that took the step, after the step.
Stepped == timers'[Len(timers')]

\* The fold whose transform the step ran, and what the step drew.
Unfolded == Stepped.applied[Len(Stepped.applied)]

Drawn ==
    IF lastOp' = "generatePattern"
    THEN finalLayer'
    ELSE SubSeq(finalLayer', Len(finalLayer) + 1, Len(finalLayer'))

\* The footprint f lies where the dye point p is after a rotation by k/n of
\* a full turn about (cx, cy).
IsRotated(f, p, cx, cy, k, n) ==
    CASE k = 0 ->
            /\ f.x = Frac(p.x, 1)
            /\ f.y = Frac(p.y, 1)
            /\ f.via = <<>>
      [] 4 * k = n ->
            /\ f.x = Frac(cx - (p.y - cy), 1)
            /\ f.y = Frac(cy + (p.x - cx), 1)
            /\ f.via = <<>>
      [] 2 * k = n ->
            /\ f.x = Frac(2 * cx - p.x, 1)
            /\ f.y = Frac(2 * cy - p.y, 1)
            /\ f.via = <<>>
      [] 4 * k = 3 * n ->
            /\ f.x = Frac(cx + (p.y - cy), 1)
            /\ f.y = Frac(cy - (p.x - cx), 1)
            /\ f.via = <<>>
      [] OTHER ->
            /\ f.x = Frac(p.x, 1)
            /\ f.y = Frac(p.y, 1)
            /\ f.via = <<[op |-> "rotate", arg |-> Frac(k, n),
                          centerX |-> cx, centerY |-> cy]>>

\* C21: the unfold of a spiral fold of r rotations draws exactly 4r copies of
\* every dye point, the copy i (0 .. 4r-1) rotated about the fold centre by
\* i/(4r) of a full turn, so that the copy 0 is the point itself.
C21_SpiralCopies ==
    [][TransformStep /\ Unfolded.type = SPIRAL
        => LET n == 4 * Unfolded.rotations
               points == Stepped.dyePoints
           IN  /\ Len(Drawn) = Len(points) * n
               /\ \A i \in 1..Len(points) : \A k \in 0..(n - 1) :
                     LET f == Drawn[(i - 1) * n + k + 1]
                     IN  /\ IsRotated(f, points[i], Unfolded.centerX,
                                      Unfolded.centerY, k, n)
                         /\ f.color = points[i].color
                         /\ f.radius = points[i].radius]_vars

\* A spiral fold of two rotations has been unfolded over a dye point: eight
\* copies, the third of them a quarter turn from the point.
C21_Witness ==
    /\ lastOp \in {"generatePattern", "applyUnfoldTransform"}
    /\ timers # <<>>
    /\ LET inv == timers[Len(timers)]
       IN  /\ inv.applied # <<>>
           /\ inv.applied[Len(inv.applied)].type = SPIRAL
           /\ inv.applied[Len(inv.applied)].rotations = 2
           /\ inv.dyePoints # <<>>
           /\ Len(finalLayer) >= 8
           /\ finalLayer[Len(finalLayer) - 5].via = <<>>
           /\ finalLayer[Len(finalLayer) - 5].x # finalLayer[Len(finalLayer) - 7].x

\* C22: the unfold of an accordion fold draws every dye point and exactly one
\* mirror image of it for each crease line: (x, 2L - y) across the
\* horizontal crease y = L, (2L - x, y) across the vertical crease x = L;
\* the mirror image of an image across the same crease is the point again.
C22_AccordionMirrors ==
    [][TransformStep /\ Unfolded.type = ACCORDION
        => LET lines == Unfolded.lines
               n == 1 + Len(lines)
               points == Stepped.dyePoints
           IN  /\ Len(Drawn) = Len(points) * n
               /\ \A i \in 1..Len(points) :
                     LET x == Frac(points[i].x, 1)
                         y == Frac(points[i].y, 1)
                         own == Drawn[(i - 1) * n + 1]
                     IN  /\ own.x = x /\ own.y = y /\ own.via = <<>>
                         /\ \A k \in 1..Len(lines) :
                               LET f == Drawn[(i - 1) * n + 1 + k]
                                   L == IF Unfolded.direction = "horizontal"
                                        THEN lines[k].y1 ELSE lines[k].x1
                                   twoL == FracAdd(L, L)
                                   back == mirrorPoint(f.x, f.y, lines[k],
                                                       Unfolded.direction)
                               IN  /\ f.via = <<>>
                                   /\ IF Unfolded.direction = "horizontal"
                                      THEN f.x = x /\ f.y = FracSub(twoL, y)
                                      ELSE f.x = FracSub(twoL, x) /\ f.y = y
                                   /\ back.x = x /\ back.y = y]_vars

\* A vertical accordion fold of two creases has been unfolded over a dye
\* point off both creases: the point and two images beside it.
C22_Witness ==
    /\ lastOp \in {"generatePattern", "applyUnfoldTransform"}
    /\ timers # <<>>
    /\ LET inv == timers[Len(timers)]
       IN  /\ inv.applied # <<>>
           /\ inv.applied[Len(inv.applied)].type = ACCORDION
           /\ inv.applied[Len(inv.applied)].direction = "vertical"
           /\ inv.dyePoints # <<>>
           /\ Len(finalLayer) >= 3
           /\ finalLayer[Len(finalLayer)].x # finalLayer[Len(finalLayer) - 2].x
           /\ finalLayer[Len(finalLayer)].y = finalLayer[Len(finalLayer) - 2].y

(***************************************************************************)
(* Properties of the colour model.                                         *)
(***************************************************************************)
\* The channels of the colours p and q differ by at most one.
WithinOne(p, q) ==
    /\ Abs(p.r - q.r) <= 1
    /\ Abs(p.g - q.g) <= 1
    /\ Abs(p.b - q.b) <= 1

\* C23, as stated: mixColors(a, b, 0) = a, mixColors(a, b, 1) = b and
\* mixColors(a, b, t) = mixColors(b, a, 1 - t) for all colours a and b of
\* integer channels and every ratio t of [0, 1].
C23_MixSymmetric ==
    lastOp = "mixColors"
    => LET a == asked[1]
           b == asked[2]
           t == asked[3]
       IN  /\ t = Frac(0, 1) => ret = a
           /\ t = Frac(1, 1) => ret = b
           /\ ret = mixColors(b, a, FracSub(Frac(1, 1), t))

\* C23, amended: mixColors(a, b, 0) = a and mixColors(a, b, 1) = b, and each
\* channel of mixColors(a, b, t) is within one of that channel of
\* mixColors(b, a, 1 - t).
C23_MixWithinRounding ==
    lastOp = "mixColors"
    => LET a == asked[1]
           b == asked[2]
           t == asked[3]
       IN  /\ t = Frac(0, 1) => ret = a
           /\ t = Frac(1, 1) => ret = b
           /\ WithinOne(ret, mixColors(b, a, FracSub(Frac(1, 1), t)))

\* Two different colours have been mixed at a ratio strictly between 0 and
\* 1 where a channel is halfway between two integers.
C23_Witness ==
    /\ lastOp = "mixColors"
    /\ asked[3] = Frac(1, 100)
    /\ ret = mixColors([r |-> 8, g |-> 58, b |-> 0],
                       [r |-> 58, g |-> 8, b |-> 255], Frac(1, 100))
    /\ ret.r = 9

\* No recorded dye point covers the position (x, y).
Uncovered(x, y) ==
    \A i \in 1..Len(dyePoints) :
        distanceSq(x, y, dyePoints[i].x, dyePoints[i].y)
            > dyePoints[i].radius * dyePoints[i].radius

\* C24: mixDyesAtPoint(x, y) returns white (255, 255, 255) for every position
\* farther from each recorded dye point than that point's radius, also when
\* no point is recorded and after clear().
C24_WhiteOffDye ==
    lastOp = "mixDyesAtPoint" /\ Uncovered(asked[1], asked[2]) => ret = White

\* Dye is recorded and a position off all of it has been queried.
C24_Witness ==
    /\ lastOp = "mixDyesAtPoint"
    /\ dyePoints # <<>>
    /\ Uncovered(asked[1], asked[2])
    /\ ret = White

\* C26: mixDyesAtPoint returns a colour of three integer channels in
\* [0, 255] for every set of recorded dye points and every position, the
\* covering points being folded in recorded order, each with its
\* distance-weighted intensity as the ratio.
C26_ChannelsInRange ==
    lastOp = "mixDyesAtPoint"
    => /\ ret.r \in 0..255
       /\ ret.g \in 0..255
       /\ ret.b \in 0..255

(***************************************************************************)
(* Properties of the layer cap and of the crease lines.                    *)
(***************************************************************************)
\* C25: no operation adds a fold while the layer cap is reached: with
\* getLayers().length >= MAX_LAYERS both applyFold and redo leave the fold
\* stack unchanged.
C25_NoFoldAtCap ==
    [][Len(getLayers(Engine)) >= MAX_LAYERS /\ lastOp' \in {"applyFold", "redo"}
        => folds' = folds]_vars

\* C27: the crease lines of every accordion fold, of either direction and
\* of every fold count from 1 up, are spaced by extent/(foldCount + 1) along
\* the fold axis and lie strictly inside the extent of the garment body on
\* that axis, the body being the rectangle isPointOnShirt tests.
C27_CreasesInsideBody ==
    \A i \in 1..Len(folds) :
        folds[i].type = ACCORDION
        => LET fold == folds[i]
               body == createShirtGeometry.body
               horizontal == fold.direction = "horizontal"
               low == Frac(IF horizontal THEN body.y ELSE body.x, 1)
               extent == IF horizontal THEN body.height ELSE body.width
               high == FracAdd(low, Frac(extent, 1))
               spacing == Frac(extent, fold.numFolds + 1)
               at(k) == IF horizontal THEN fold.lines[k].y1 ELSE fold.lines[k].x1
           IN  /\ Len(fold.lines) = fold.numFolds
               /\ \A k \in 1..Len(fold.lines) :
                     /\ at(k) # low /\ FracLeq(low, at(k))
                     /\ at(k) # high /\ FracLeq(at(k), high)
               /\ \A k \in 1..(Len(fold.lines) - 1) :
                     FracSub(at(k + 1), at(k)) = spacing

(***************************************************************************)
(* Properties of the unfold in time and of the wired application.          *)
(***************************************************************************)
\* The invocation numbered id has started and has not completed.
InFlight(id) == \E k \in 1..Len(timers) : timers[k].id = id

\* C28: every generatePattern invocation terminates.  When the timers fire,
\* an invocation that has emitted UNFOLD_START comes to its UNFOLD_COMPLETE
\* whatever is called in between; it emits UNFOLD_COMPLETE once, in the step
\* that ends it (the step that starts it when the stack is empty).
C28_UnfoldTerminates ==
    /\ \A id \in 1..MaxUnfolds : InFlight(id) ~> ~InFlight(id)
    /\ [][/\ lastOp' = "generatePattern"
             => \/ /\ folds = <<>>
                   /\ emitted' = <<[type |-> UNFOLD_START],
                                   [type |-> UNFOLD_COMPLETE]>>
                   /\ timers' = timers
                \/ /\ folds # <<>>
                   /\ emitted' = <<[type |-> UNFOLD_START]>>
                   /\ \E id \in 1..MaxUnfolds : ~InFlight(id) /\ InFlight(id)'
          /\ \A id \in 1..MaxUnfolds :
                InFlight(id) /\ ~InFlight(id)'
                => /\ lastOp' = "unfoldComplete"
                   /\ emitted' = <<[type |-> UNFOLD_COMPLETE]>>
                   /\ Head(timers).id = id
                   /\ Len(timers') = Len(timers) - 1
          /\ lastOp' # "unfoldComplete" /\ lastOp' # "generatePattern"
             => \A k \in 1..Len(emitted') :
                   emitted'[k].type \notin {UNFOLD_START, UNFOLD_COMPLETE}]_vars

\* An invocation over two folds has completed while another one waits, and
\* a reset came in between.
C28_Witness ==
    /\ lastOp = "unfoldComplete"
    /\ timers # <<>>
    /\ folds = <<>>
    /\ Len(timers[1].folds) = 2

\* C29: a mousemove on the canvas records a dye point only if the phase is
\* DYE and a mousedown on the garment came earlier in the DYE phase with no
\* mouseup or mouseleave since; a stroke does not survive a change of phase.
C29_StrokeNeedsMouseDown ==
    [][lastOp' = "mousemove" /\ Len(dyePoints') > Len(dyePoints)
        => currentPhase = PHASE_DYE /\ pressed]_vars

\* C30: after reset() the fold stack, the redo buffer and the dye points are
\* empty, the phase is FOLD and the final layer is blank, and the final layer
\* stays blank until a generatePattern invocation that starts after the
\* reset draws on it, also when reset() runs during a pacing delay.  Stated
\* for the reset step and for the step that follows it.
C30_BlankAfterReset ==
    [][/\ lastOp' = "reset"
          => /\ getFolds(Engine)' = <<>>
             /\ undoStack' = <<>>
             /\ getDyePoints(Dye)' = <<>>
             /\ currentPhase' = PHASE_FOLD
             /\ finalLayer' = <<>>
       /\ lastOp = "reset" /\ lastOp' # "generatePattern"
          => finalLayer' = <<>>]_vars

\* The last call ended an unfold: no invocation waits and the last event
\* emitted is UNFOLD_COMPLETE, so no fold or dye operation has come since.
Completed ==
    /\ timers = <<>>
    /\ emitted # <<>>
    /\ emitted[Len(emitted)].type = UNFOLD_COMPLETE

\* C31, as claimed: a generatePattern called right after an unfold has
\* completed, with no fold or dye operation in between, leaves at its own
\* completion the final pattern the first one left: on the empty stack, where
\* it completes in the call, the final layer is unchanged; with folds it then
\* runs the transforms of its snapshot, last fold first, and what they draw
\* is what the final layer held when it was called.
C31_UnfoldRepeatable ==
    [][/\ (Completed /\ lastOp' = "generatePattern") =>
            (IF getFolds(Engine) = <<>>
             THEN finalLayer' = finalLayer
             ELSE WithoutDelay(timers'[Len(timers')]) = finalLayer)
       /\ (lastOp' = "unfoldComplete" /\ Len(timers) = 1) =>
            (finalLayer' = WithoutDelay(Head(timers)))]_vars

=============================================================================
